---- MODULE Spec2Model ----
(***************************************************************************)
(* A state-machine model of the ThreatTrace / Cerberus platform:           *)
(*   - the Gatekeeper inspection engine   (src/gatekeeper/api/main.py)     *)
(*   - the Switch session router          (src/switch/api/main.py)         *)
(*   - the Evidence Builder / Retriever   (src/shared/evidence/*.py)       *)
(*   - the evidence topic and its consumer (src/shared/messaging,          *)
(*     src/sentinel/api/evidence_consumer.py)                              *)
(*   - Sentinel: payload simulator, rule generator, policy orchestrator    *)
(*     (src/sentinel/simulator, src/sentinel/rule_gen, src/sentinel/api)   *)
(*                                                                         *)
(* Conventions.                                                            *)
(*   Text that is searched (URLs, bodies, headers, rule patterns) is a     *)
(*   sequence of one-character strings.  Identifiers that are only         *)
(*   compared or concatenated (session ids, IPs, event ids) are strings.   *)
(*   Floating-point scores are kept exact: the ML score is a percentage    *)
(*   (80 stands for 0.80) and the combined score is a fraction num/den.    *)
(*   Python's None is the string "None" for text-valued fields and 0 for   *)
(*   the generated event ids (which are numbered from 1).                  *)
(*   Wall-clock time (datetime.utcnow()) is the integer variable now.      *)
(***************************************************************************)
EXTENDS Integers, Sequences, FiniteSets, TLC

VARIABLES
    \* ---- Gatekeeper (src/gatekeeper/api/main.py)
    active_rules,       \* dict rule_id -> WAFRule, in insertion order
    session_history,    \* dict session_id -> list of {timestamp, ml_score, features}
    gk_req,             \* the last Gatekeeper request (inspect: the request body)
    gk_resp,            \* the response of the last Gatekeeper request
    poi_events,         \* the POI_TAGGED events written by emit_poi_event
    inspect_calls,      \* session_id -> a tally, kept by the caller and not by
                        \* the program, of the inspect calls of a counted run:
                        \* all of them, and those answered from the decision stage
    \* ---- Switch (src/switch/api/main.py)
    pinned_sessions,    \* dict fingerprint -> pin, in insertion order
    sw_req,             \* the last Switch request (route: the request body)
    sw_resp,            \* the response of the last Switch request
    sw_events,          \* number of SessionPinnedEvent files written by _save_event
    \* ---- Evidence Builder (src/shared/evidence/builder.py)
    builder,            \* the EvidenceBuilder in use: collectors, workspace, progress
    builds,             \* number of packages built so far (numbers the capture ids)
    returned,           \* the pointers build_and_upload has returned to its callers
    \* ---- object store (src/shared/storage/minio_client.py)
    bucket,             \* bucket "labyrinth-evidence": object name -> content
    \* ---- evidence topic (src/shared/messaging/event_bus.py)
    topic,              \* messages of "cerberus.evidence.ready", in log order
    bus_result,         \* what the last publish call returned
    \* ---- Sentinel consumer (src/sentinel/api/evidence_consumer.py)
    consumer_offset,    \* number of topic messages the consumer has been handed
    evidence,           \* the dict the retriever returned for the last message
    profiler_calls,     \* the calls the analysis handler made on the profiler
    attacker_profiles,  \* storage_dict of the analysis handler
    consumer_running,   \* the subscriber loop of the consumer process is alive
    running,            \* EvidenceConsumer.running, the flag start and stop set
    committed,          \* the committed offset of the consumer group, if any
    handled,            \* topic positions whose handler has returned
    crashed_in,         \* position being handled when the process last died (0: none)
    crashes,            \* number of times the consumer process died
    \* ---- Sentinel (src/sentinel/api/main.py, src/sentinel/simulator)
    simulation_results, \* dict job_id -> job, in insertion order
    generated_rules,    \* dict rule_id -> WAFRule, in insertion order
    sn_events,          \* the event files written by Sentinel's _save_event
    pushes,             \* the rule-create requests sent to the inspection engine
    sn_resp,            \* the outcome of the last Sentinel request or task
    sn_tasks,           \* the queued background tasks (run_simulation)
    docker_networks,    \* sandbox networks that exist on the Docker host
    docker_containers,  \* sandbox containers that exist on the Docker host
    sim_runs,           \* number of simulate calls made so far
    sim_return,         \* how the last simulate call ended
    \* ---- shared wall clock
    now

gkVars == <<active_rules, session_history, gk_req, gk_resp, poi_events,
           inspect_calls>>
swVars == <<pinned_sessions, sw_req, sw_resp, sw_events>>
grpVars == <<consumer_running, running, committed, handled, crashed_in, crashes>>
evVars == <<builder, builds, returned, bucket, topic, bus_result,
           consumer_offset, evidence, profiler_calls, attacker_profiles,
           consumer_running, running, committed, handled, crashed_in, crashes>>
snVars == <<simulation_results, generated_rules, sn_events, pushes, sn_resp,
           sn_tasks, docker_networks, docker_containers, sim_runs, sim_return>>
vars == <<active_rules, session_history, gk_req, gk_resp, poi_events, inspect_calls,
          pinned_sessions, sw_req, sw_resp, sw_events,
          builder, builds, returned, bucket, topic, bus_result,
          consumer_offset, evidence, profiler_calls, attacker_profiles,
          consumer_running, running, committed, handled, crashed_in, crashes,
          simulation_results, generated_rules, sn_events, pushes, sn_resp,
          sn_tasks, docker_networks, docker_containers, sim_runs, sim_return, now>>

None == "None"

\* ------------------------------------------------------------------------
\* Bounds of the model
\* ------------------------------------------------------------------------
MaxInspects == 2      \* inspections recorded per session window
MaxDeepInspects == 4  \* inspections recorded per window in the decision runs
MaxInspectCalls == 21 \* inspect calls of one session in a counted run
MaxTime == 2          \* last tick of the wall clock
MaxPinCalls == 2      \* pin requests served (each writes an event file)
MaxUnpinPins == 3     \* pin requests served in the unpin runs

\* ------------------------------------------------------------------------
\* Program constants
\* ------------------------------------------------------------------------
WindowCap == 20           \* "Keep only last 20 requests per session"
SequenceLength == 10      \* LSTMBehavioralClassifier.sequence_length
PoiThreshold == 75        \* AnomalyDetector.poi_threshold (0.75), in percent
NoExpiry == 0             \* "expires_at": None, the rule never expires
BlockMinConfidence == 750 \* rule invariant: block needs confidence >= 0.75 (thousandths)

Max(a, b) == IF a >= b THEN a ELSE b
Min(a, b) == IF a <= b THEN a ELSE b

\* ------------------------------------------------------------------------
\* Text
\* ------------------------------------------------------------------------
\* str.lower() on the model's alphabet, as used by re.IGNORECASE
Lower(c) == IF c = "A" THEN "a" ELSE c

LowerAll(t) == [i \in 1..Len(t) |-> Lower(t[i])]

\* Python's  pattern in text
IsSubstr(p, t) ==
    \E i \in 0..(Len(t) - Len(p)) : \A j \in 1..Len(p) : t[i + j] = p[j]

\* re.compile on the model's regex subset: literal characters and "(".
\* An unbalanced "(" raises re.error ("missing ), unterminated subpattern").
RegexCompiles(p) == \A i \in 1..Len(p) : p[i] # "("

\* re.search(pattern, text, flags) for a pattern that compiles
RegexSearch(p, t, caseless) ==
    IF caseless THEN IsSubstr(LowerAll(p), LowerAll(t)) ELSE IsSubstr(p, t)

\* json.dumps of a dict of strings, the dict given as a sequence of
\* [name, value] in insertion order:  {"n1": "v1", "n2": "v2"}
RECURSIVE JsonItems(_, _)
JsonItems(headers, i) ==
    IF i > Len(headers) THEN <<>>
    ELSE (IF i > 1 THEN <<",", " ">> ELSE <<>>)
         \o <<"\"">> \o headers[i].name \o <<"\"", ":", " ", "\"">>
         \o headers[i].value \o <<"\"">>
         \o JsonItems(headers, i + 1)

JsonDumps(headers) == <<"{">> \o JsonItems(headers, 1) \o <<"}">>

\* f"{req.url} {req.body} {json.dumps(req.headers)}"
CombinedText(req) ==
    req.url \o <<" ">> \o req.body \o <<" ">> \o JsonDumps(req.headers)

\* ------------------------------------------------------------------------
\* Gatekeeper: inputs
\* ------------------------------------------------------------------------
RuleIds == {"r1", "r2"}
SessionIds == {"s1", "s2"}
ClientIps == {"ip1", "ip2"}

MatchString(p) == [type |-> "string", pattern |-> p, flags |-> [caseless |-> FALSE]]
MatchRegex(p, c) == [type |-> "regex", pattern |-> p, flags |-> [caseless |-> c]]

\* The match/action parts of the rules that are pushed to the engine
RuleBodies ==
    { [match |-> MatchString(<<"a">>), action |-> "block"],
      [match |-> MatchString(<<"a">>), action |-> "tag"],
      [match |-> MatchRegex(<<"a">>, TRUE), action |-> "block"],
      [match |-> MatchRegex(<<"a">>, FALSE), action |-> "challenge"],
      [match |-> MatchRegex(<<"(">>, FALSE), action |-> "block"] }

\* A WAFRule as the engine stores it: priority, confidence (thousandths) and
\* expires_at (a clock value, or NoExpiry) travel with the rule
MkRule(id, b, e, priority, confidence, expires_at) ==
    [rule_id |-> id, match |-> b.match, action |-> b.action, enabled |-> e,
     priority |-> priority, confidence |-> confidence, expires_at |-> expires_at]

\* priority 100, confidence 0.95 and no expiry: the rule the end-to-end test pushes
RuleInputs ==
    { MkRule(id, b, e, 100, 950, NoExpiry) :
        id \in RuleIds, b \in RuleBodies, e \in BOOLEAN }

\* The anomaly scores (percent) the Isolation Forest gives the model's requests
MlScores == {0, 80}

RequestTexts ==
    { [url |-> <<"/", "a">>, body |-> <<>>, headers |-> <<>>],
      [url |-> <<"/">>, body |-> <<"A">>, headers |-> <<>>],
      [url |-> <<"/">>, body |-> <<>>,
       headers |-> <<[name |-> <<"h">>, value |-> <<"a">>]>>],
      [url |-> <<"/">>, body |-> <<>>, headers |-> <<>>] }

GkSessionIds == {"s1"}
GkClientIps == {"ip1"}

MkRequest(t, s, ip, ml) ==
    [url |-> t.url, body |-> t.body, headers |-> t.headers,
     client_ip |-> ip, session_id |-> s, ml |-> ml, raises |-> "none"]

\* The scoring stage that raises while the request is inspected, if one does:
\* feature_extractor.extract, anomaly_detector.predict (scaler or forest not
\* usable) or behavioral_classifier.predict
ScoringStages == {"extract", "anomaly", "behavioral"}

WithScoringFailure(req, stage) == [req EXCEPT !.raises = stage]

InspectInputs ==
    { MkRequest(t, s, ip, ml) :
        t \in RequestTexts, s \in GkSessionIds, ip \in GkClientIps, ml \in MlScores }

\* ------------------------------------------------------------------------
\* Gatekeeper: helpers
\* ------------------------------------------------------------------------
\* A check_waf_rules that forgets the enabled test
RuleNeverSkipped(rule) == FALSE

\* check_waf_rules, "if not rule.enabled: continue"
RuleIsSkipped(rule) == ~rule.enabled

\* check_waf_rules, the loop from rule i on with the score so far.
\* raised: re.search raised re.error (the pattern does not compile), which
\* nothing in check_waf_rules or inspect_request catches.
RECURSIVE CheckFrom(_, _, _, _)
CheckFrom(rules, text, i, score) ==
    IF i > Len(rules)
    THEN [score |-> score, blocked_by |-> None, raised |-> FALSE]
    ELSE LET rule == rules[i] IN
         IF RuleIsSkipped(rule) THEN CheckFrom(rules, text, i + 1, score)
         ELSE IF rule.match.type = "string"
         THEN IF IsSubstr(rule.match.pattern, text)
              THEN IF rule.action = "block"
                   THEN [score |-> 100, blocked_by |-> rule.rule_id, raised |-> FALSE]
                   ELSE CheckFrom(rules, text, i + 1, Max(score, 80))
              ELSE CheckFrom(rules, text, i + 1, score)
         ELSE IF rule.match.type = "regex"
         THEN IF ~RegexCompiles(rule.match.pattern)
              THEN [score |-> score, blocked_by |-> None, raised |-> TRUE]
              ELSE IF RegexSearch(rule.match.pattern, text, rule.match.flags.caseless)
              THEN IF rule.action = "block"
                   THEN [score |-> 100, blocked_by |-> rule.rule_id, raised |-> FALSE]
                   ELSE CheckFrom(rules, text, i + 1, Max(score, 85))
              ELSE CheckFrom(rules, text, i + 1, score)
         ELSE CheckFrom(rules, text, i + 1, score)

\* A scan that misses the first rule of the set, as when the set changes
\* under the loop
CheckWafRulesTorn(rules, req) == CheckFrom(rules, CombinedText(req), 2, 0)

CheckWafRules(rules, req) == CheckFrom(rules, CombinedText(req), 1, 0)

RECURSIVE SumSeq(_)
SumSeq(s) == IF s = <<>> THEN 0 ELSE Head(s) + SumSeq(Tail(s))

\* A score computed from a history of any length
BehavioralPredictAnyLength(history) ==
    IF Len(history) < 1 THEN [num |-> 0, den |-> 1]
    ELSE LET first == Max(1, Len(history) - SequenceLength + 1)
             recent == SubSeq(history, first, Len(history))
             n == Len(recent)
             S == SumSeq([i \in 1..n |-> recent[i].ml_score])
             Q == SumSeq([i \in 1..n |-> recent[i].ml_score * recent[i].ml_score])
             D == 10000 * n * n
         IN [num |-> Min(D, 2 * (n * Q - S * S) + 50 * n * S), den |-> D]

\* LSTMBehavioralClassifier.predict: min(1, 2*var + 0.5*mean) of the last ten
\* ml scores, 0 with fewer than three entries; the exact fraction num/den.
\* With p the scores in percent, n their number, S their sum and Q the sum
\* of their squares: var = (n*Q - S*S)/(10^4 n^2), mean = S/(100 n).
BehavioralPredict(history) ==
    IF Len(history) < 3 THEN [num |-> 0, den |-> 1]
    ELSE LET first == Max(1, Len(history) - SequenceLength + 1)
             recent == SubSeq(history, first, Len(history))
             n == Len(recent)
             S == SumSeq([i \in 1..n |-> recent[i].ml_score])
             Q == SumSeq([i \in 1..n |-> recent[i].ml_score * recent[i].ml_score])
             D == 10000 * n * n
         IN [num |-> Min(D, 2 * (n * Q - S * S) + 50 * n * S), den |-> D]

\* calculate_combined_score: min(100, 0.4*modsec + 40*ml + 20*behavioral)
CalculateCombinedScore(modsec, ml, beh) ==
    LET num == (4 * modsec + 4 * ml) * beh.den + 200 * beh.num
        den == 10 * beh.den
    IN IF num >= 100 * den THEN [num |-> 100, den |-> 1] ELSE [num |-> num, den |-> den]

\* determine_action without its combined-score branch
DetermineActionMlOnly(modsec, ml, combined, is_anomaly, beh) ==
    IF modsec >= 90
    THEN [action |-> "block", tags |-> <<"signature_match", "high_threat">>]
    ELSE IF is_anomaly /\ ml >= 75
    THEN [action |-> "tag_poi", tags |-> <<"poi", "ml_high_confidence">>]
    ELSE [action |-> "allow", tags |-> <<"normal">>]

\* inspect_request emitting an event whatever the action
EmitsPoiEventAlways(action) == TRUE

\* inspect_request: "if action == 'tag_poi': event_id = emit_poi_event(...)"
EmitsPoiEvent(action) == action = "tag_poi"

\* determine_action: (action, tags)
DetermineAction(modsec, ml, combined, is_anomaly, beh) ==
    IF modsec >= 90
    THEN [action |-> "block", tags |-> <<"signature_match", "high_threat">>]
    ELSE IF combined.num >= 75 * combined.den
    THEN [action |-> "tag_poi",
          tags |-> <<"poi", "high_combined_score">>
                   \o (IF is_anomaly THEN <<"ml_anomaly">> ELSE <<>>)
                   \o (IF 10 * beh.num > 7 * beh.den THEN <<"behavioral_anomaly">> ELSE <<>>)]
    ELSE IF is_anomaly /\ ml >= 75
    THEN [action |-> "tag_poi", tags |-> <<"poi", "ml_high_confidence">>]
    ELSE [action |-> "allow", tags |-> <<"normal">>]

NoGkResp ==
    [op |-> "none", status |-> 0, action |-> None, session_id |-> None,
     modsecurity |-> 0, ml_anomaly |-> 0, combined |-> [num |-> 0, den |-> 1],
     tags |-> <<>>, blocked_by |-> None, event_id |-> 0, rule_id |-> None]

\* The request slot when the last request carried no inspected body
NoRequest ==
    [url |-> <<>>, body |-> <<>>, headers |-> <<>>, client_ip |-> None,
     session_id |-> None, ml |-> 0, raises |-> "none"]

HistoryOf(sid) ==
    IF sid \in DOMAIN session_history THEN session_history[sid] ELSE <<>>

\* ------------------------------------------------------------------------
\* Gatekeeper: operations
\* ------------------------------------------------------------------------
CallsOf(sid) ==
    IF sid \in DOMAIN inspect_calls THEN inspect_calls[sid]
    ELSE [total |-> 0, decided |-> 0]

\* "Keep only last 20 requests per session": the mistaken reading that keeps
\* the first twenty
KeepFirst(entries) ==
    IF Len(entries) > WindowCap
    THEN SubSeq(entries, 1, WindowCap)
    ELSE entries

\* "Keep only last 20 requests per session"
KeepLast(entries) ==
    IF Len(entries) > WindowCap
    THEN SubSeq(entries, Len(entries) - WindowCap + 1, Len(entries))
    ELSE entries

\* inspect_request, steps 2-4: whether an exception leaves the handler.
\* behavioral_classifier.predict is called only for a session with a history.
ScoringRaises(req) ==
    \/ req.raises \in {"extract", "anomaly"}
    \/ req.raises = "behavioral" /\ req.session_id \in DOMAIN session_history

\* POST /api/v1/inspect: the handler
InspectCall(req) ==
    LET chk == CheckWafRules(active_rules, req) IN
    /\ gk_req' = req
    /\ IF chk.raised
       THEN \* re.error propagates: HTTP 500, no state was changed yet
            /\ gk_resp' = [NoGkResp EXCEPT !.op = "inspect", !.status = 500,
                                           !.session_id = req.session_id]
            /\ UNCHANGED <<session_history, poi_events>>
       ELSE IF chk.blocked_by # None
       THEN /\ gk_resp' = [NoGkResp EXCEPT !.op = "inspect", !.status = 200,
                              !.action = "block", !.session_id = req.session_id,
                              !.modsecurity = chk.score,
                              !.combined = [num |-> chk.score, den |-> 1],
                              !.tags = <<"blocked", "rule_match">>,
                              !.blocked_by = chk.blocked_by]
            /\ UNCHANGED <<session_history, poi_events>>
       ELSE IF ScoringRaises(req)
       THEN \* steps 2-4 run outside any try: the exception propagates, HTTP 500,
            \* before the session history is touched
            /\ gk_resp' = [NoGkResp EXCEPT !.op = "inspect", !.status = 500,
                                           !.session_id = req.session_id]
            /\ UNCHANGED <<session_history, poi_events>>
       ELSE LET ml == req.ml
                is_anomaly == ml >= PoiThreshold
                beh == IF req.session_id \in DOMAIN session_history
                       THEN BehavioralPredict(session_history[req.session_id])
                       ELSE [num |-> 0, den |-> 1]
                appended == Append(HistoryOf(req.session_id),
                                   [timestamp |-> now, ml_score |-> ml])
                window == KeepLast(appended)
                combined == CalculateCombinedScore(chk.score, ml, beh)
                decision == DetermineAction(chk.score, ml, combined, is_anomaly, beh)
                event_id == IF EmitsPoiEvent(decision.action)
                            THEN Len(poi_events) + 1 ELSE 0
            IN /\ session_history' =
                     [s \in DOMAIN session_history \cup {req.session_id} |->
                         IF s = req.session_id THEN window ELSE session_history[s]]
               /\ poi_events' =
                     IF EmitsPoiEvent(decision.action)
                     THEN Append(poi_events,
                                 [event_id |-> event_id, session_id |-> req.session_id,
                                  client_ip |-> req.client_ip])
                     ELSE poi_events
               /\ gk_resp' = [NoGkResp EXCEPT !.op = "inspect", !.status = 200,
                                 !.action = decision.action,
                                 !.session_id = req.session_id,
                                 !.modsecurity = chk.score, !.ml_anomaly = ml,
                                 !.combined = combined, !.tags = decision.tags,
                                 !.event_id = event_id]
    /\ UNCHANGED <<active_rules, swVars, evVars, snVars, now>>

\* POST /api/v1/inspect, explored while the session window is short
InspectRequest(req) ==
    /\ Len(HistoryOf(req.session_id)) < MaxInspects
    /\ InspectCall(req)
    /\ UNCHANGED inspect_calls

\* POST /api/v1/inspect, explored until the behavioral score has a history
InspectDeep(req) ==
    /\ Len(HistoryOf(req.session_id)) < MaxDeepInspects
    /\ InspectCall(req)
    /\ UNCHANGED inspect_calls

\* POST /api/v1/inspect, with the caller counting its calls for the session
InspectCounted(req) ==
    /\ CallsOf(req.session_id).total < MaxInspectCalls
    /\ InspectCall(req)
    /\ LET decided == gk_resp'.status = 200 /\ gk_resp'.blocked_by = None
       IN inspect_calls' =
             [s \in DOMAIN inspect_calls \cup {req.session_id} |->
                 IF s = req.session_id
                 THEN [total |-> CallsOf(s).total + 1,
                       decided |-> CallsOf(s).decided + (IF decided THEN 1 ELSE 0)]
                 ELSE inspect_calls[s]]

RuleIndex(id) ==
    IF \E i \in 1..Len(active_rules) : active_rules[i].rule_id = id
    THEN CHOOSE i \in 1..Len(active_rules) : active_rules[i].rule_id = id
    ELSE 0

\* A create_rule that never finds the id
RuleIdNeverExists(id) == FALSE

\* create_rule, "if rule.rule_id in active_rules"
RuleIdExists(id) == RuleIndex(id) # 0

\* A rule schema without the block invariant
WAFRuleAnyConfidence(rule) == TRUE

\* WAFRule, the rule invariant: "action = block requires confidence >= 0.75"
WAFRuleValid(rule) ==
    rule.action = "block" => rule.confidence >= BlockMinConfidence

\* POST /api/v1/gatekeeper/rules
CreateRule(rule) ==
    /\ gk_req' = NoRequest
    /\ IF ~WAFRuleValid(rule)
       THEN \* req: RuleCreateRequest does not parse: the handler body never runs
            /\ gk_resp' = [NoGkResp EXCEPT !.op = "create_rule", !.status = 400,
                                           !.rule_id = rule.rule_id]
            /\ UNCHANGED active_rules
       ELSE IF RuleIdExists(rule.rule_id)
       THEN /\ gk_resp' = [NoGkResp EXCEPT !.op = "create_rule", !.status = 409,
                                           !.rule_id = rule.rule_id]
            /\ UNCHANGED active_rules
       ELSE /\ active_rules' = Append(active_rules, rule)
            /\ gk_resp' = [NoGkResp EXCEPT !.op = "create_rule", !.status = 201,
                                           !.rule_id = rule.rule_id]
    /\ UNCHANGED <<session_history, poi_events, inspect_calls, swVars, evVars, snVars, now>>

\* DELETE /api/v1/gatekeeper/rules/{rule_id}
DeleteRule(id) ==
    /\ gk_req' = NoRequest
    /\ IF RuleIndex(id) = 0
       THEN /\ gk_resp' = [NoGkResp EXCEPT !.op = "delete_rule", !.status = 404,
                                           !.rule_id = id]
            /\ UNCHANGED active_rules
       ELSE /\ active_rules' = SelectSeq(active_rules, LAMBDA r : r.rule_id # id)
            /\ gk_resp' = [NoGkResp EXCEPT !.op = "delete_rule", !.status = 200,
                                           !.rule_id = id]
    /\ UNCHANGED <<session_history, poi_events, inspect_calls, swVars, evVars, snVars, now>>

\* PUT /api/v1/gatekeeper/rules/{rule_id}/toggle
ToggleRule(id, enabled) ==
    /\ gk_req' = NoRequest
    /\ IF RuleIndex(id) = 0
       THEN /\ gk_resp' = [NoGkResp EXCEPT !.op = "toggle_rule", !.status = 404,
                                           !.rule_id = id]
            /\ UNCHANGED active_rules
       ELSE /\ active_rules' = [active_rules EXCEPT ![RuleIndex(id)].enabled = enabled]
            /\ gk_resp' = [NoGkResp EXCEPT !.op = "toggle_rule", !.status = 200,
                                           !.rule_id = id]
    /\ UNCHANGED <<session_history, poi_events, inspect_calls, swVars, evVars, snVars, now>>

GkInit ==
    /\ active_rules = <<>>
    /\ session_history = <<>>
    /\ gk_req = NoRequest
    /\ gk_resp = NoGkResp
    /\ poi_events = <<>>
    /\ inspect_calls = <<>>

\* ------------------------------------------------------------------------
\* Switch: helpers
\* ------------------------------------------------------------------------
\* hashlib.sha256(data.encode()).hexdigest()[:16], taken to be collision-free:
\* two digests are equal exactly when the hashed strings are.
Sha256Hex16(data) == "sha256[" \o data \o "]"

\* generate_fingerprint
GenerateFingerprint(session_id, client_ip) ==
    Sha256Hex16(session_id \o ":" \o client_ip)

\* Python truthiness of an Optional[str]: None and "" are false
Truthy(str) == str # None /\ str # ""

\* An _extract_fingerprint that looks at the cookie before the explicit id
ExtractFingerprintCookieFirst(req) ==
    IF req.cookie_session # None
    THEN GenerateFingerprint(req.cookie_session, req.client_ip)
    ELSE IF Truthy(req.session_id)
    THEN GenerateFingerprint(req.session_id, req.client_ip)
    ELSE IF Truthy(req.jwt_token)
    THEN Sha256Hex16(req.jwt_token)
    ELSE Sha256Hex16(req.client_ip \o ":" \o req.user_agent)

\* _extract_fingerprint.  cookie_session is cookies['session_id'], or None
\* when the cookies hold no such key.
ExtractFingerprint(req) ==
    IF Truthy(req.session_id)
    THEN GenerateFingerprint(req.session_id, req.client_ip)
    ELSE IF req.cookie_session # None
    THEN GenerateFingerprint(req.cookie_session, req.client_ip)
    ELSE IF Truthy(req.jwt_token)
    THEN Sha256Hex16(req.jwt_token)
    ELSE Sha256Hex16(req.client_ip \o ":" \o req.user_agent)

\* A lookup that never finds the fingerprint
PinIndexNone(pins, fp) == 0

\* pinned_sessions[fingerprint]: the place of the pin held for a fingerprint
PinIndex(pins, fp) ==
    IF \E i \in 1..Len(pins) : pins[i].fingerprint = fp
    THEN CHOOSE i \in 1..Len(pins) : pins[i].fingerprint = fp
    ELSE 0

\* An expiry test with the comparison the wrong way round
PinExpiredInverted(pin, t) == t < pin.pinned_until

\* get_route / list_sessions: "datetime.utcnow() > pinned_until"
PinExpired(pin, t) == t > pin.pinned_until

NoRoute ==
    [session_id |-> None, client_ip |-> None, user_agent |-> None,
     cookie_session |-> None, jwt_token |-> None]

NoSwResp ==
    [op |-> "none", status |-> 0, session_id |-> None, fingerprint |-> None,
     target |-> None, pinned_until |-> 0, event_id |-> 0, printed |-> None,
     sessions |-> <<>>, total_pinned |-> 0, active_pins |-> 0]

\* ------------------------------------------------------------------------
\* Switch: inputs
\* ------------------------------------------------------------------------
SwSessionIds == {"s1", ""}
SwClientIps == {"ip1", "ip2"}
Durations == {1}

PinInputs ==
    { [session_id |-> k[1], client_ip |-> k[2], reason |-> "poi", duration_hours |-> d] :
        k \in {<<"s1", "ip1">>, <<"s1", "ip2">>, <<"", "ip1">>}, d \in Durations }

RouteInputs ==
    { [session_id |-> s, client_ip |-> ip, user_agent |-> "ua",
       cookie_session |-> c, jwt_token |-> j] :
        s \in SwSessionIds \cup {None}, ip \in SwClientIps,
        c \in SwSessionIds \cup {None}, j \in {None, "s1:ip1"} }

\* ------------------------------------------------------------------------
\* Switch: operations
\* ------------------------------------------------------------------------
\* POST /api/v1/switch/pin: the handler
PinCall(req) ==
    LET fingerprint == GenerateFingerprint(req.session_id, req.client_ip)
        pinned_until == now + req.duration_hours
        pin == [session_id |-> req.session_id, fingerprint |-> fingerprint,
                target |-> "labyrinth", pinned_at |-> now,
                pinned_until |-> pinned_until, reason |-> req.reason]
        i == PinIndex(pinned_sessions, fingerprint)
    IN /\ sw_req' = [NoRoute EXCEPT !.session_id = req.session_id,
                                    !.client_ip = req.client_ip]
       /\ pinned_sessions' = IF i = 0 THEN Append(pinned_sessions, pin)
                             ELSE [pinned_sessions EXCEPT ![i] = pin]
       /\ sw_events' = sw_events + 1
       /\ sw_resp' = [NoSwResp EXCEPT !.op = "pin", !.status = 200,
                         !.session_id = req.session_id, !.fingerprint = fingerprint,
                         !.target = "labyrinth", !.pinned_until = pinned_until,
                         !.event_id = sw_events + 1]
       /\ UNCHANGED <<snVars, evVars, gkVars, now>>

\* POST /api/v1/switch/pin
PinSession(req) ==
    /\ sw_events < MaxPinCalls
    /\ PinCall(req)

\* POST /api/v1/switch/pin, explored until one session holds several pins
\* next to another session's pin
PinSeveral(req) ==
    /\ sw_events < MaxUnpinPins
    /\ PinCall(req)

\* POST /api/v1/switch/route
GetRoute(req) ==
    LET fingerprint == ExtractFingerprint(req)
        i == PinIndex(pinned_sessions, fingerprint)
    IN /\ sw_req' = req
       /\ IF i # 0 /\ PinExpired(pinned_sessions[i], now)
          THEN /\ pinned_sessions' =
                     SelectSeq(pinned_sessions, LAMBDA p : p.fingerprint # fingerprint)
               /\ sw_resp' = [NoSwResp EXCEPT !.op = "route", !.status = 200,
                                 !.target = "production", !.printed = fingerprint]
          ELSE IF i # 0
          THEN /\ sw_resp' = [NoSwResp EXCEPT !.op = "route", !.status = 200,
                                 !.target = "labyrinth", !.fingerprint = fingerprint]
               /\ UNCHANGED pinned_sessions
          ELSE /\ sw_resp' = [NoSwResp EXCEPT !.op = "route", !.status = 200,
                                 !.target = "production"]
               /\ UNCHANGED pinned_sessions
       /\ UNCHANGED <<snVars, evVars, gkVars, sw_events, now>>

\* GET /api/v1/switch/sessions
ListSessions ==
    /\ sw_req' = NoRoute
    /\ pinned_sessions' = SelectSeq(pinned_sessions, LAMBDA p : ~PinExpired(p, now))
    /\ sw_resp' = [NoSwResp EXCEPT !.op = "list_sessions", !.status = 200,
                      !.sessions = SelectSeq(pinned_sessions,
                                             LAMBDA p : ~PinExpired(p, now))]
    /\ UNCHANGED <<snVars, evVars, gkVars, sw_events, now>>

\* GET /api/v1/switch/sessions/{session_id}
GetSession(session_id) ==
    LET found == SelectSeq(pinned_sessions, LAMBDA p : p.session_id = session_id)
    IN /\ sw_req' = [NoRoute EXCEPT !.session_id = session_id]
       /\ sw_resp' = IF found # <<>>
                     THEN [NoSwResp EXCEPT !.op = "get_session", !.status = 200,
                              !.session_id = session_id, !.sessions = <<Head(found)>>]
                     ELSE [NoSwResp EXCEPT !.op = "get_session", !.status = 404,
                              !.session_id = session_id]
       /\ UNCHANGED <<snVars, evVars, gkVars, pinned_sessions, sw_events, now>>

\* An unpin loop that stops at the first pin it removes
RemoveFirstPin(pins, session_id) ==
    IF \E i \in 1..Len(pins) : pins[i].session_id = session_id
    THEN LET k == CHOOSE i \in 1..Len(pins) :
                    /\ pins[i].session_id = session_id
                    /\ \A j \in 1..(i - 1) : pins[j].session_id # session_id
         IN SubSeq(pins, 1, k - 1) \o SubSeq(pins, k + 1, Len(pins))
    ELSE pins

\* unpin_session, the loop over list(pinned_sessions.items()): every entry of
\* the session is deleted
RemovePins(pins, session_id) ==
    SelectSeq(pins, LAMBDA p : p.session_id # session_id)

\* DELETE /api/v1/switch/pin/{session_id}
UnpinSession(session_id) ==
    LET removed == \E i \in 1..Len(pinned_sessions) :
                       pinned_sessions[i].session_id = session_id
    IN /\ sw_req' = [NoRoute EXCEPT !.session_id = session_id]
       /\ pinned_sessions' = RemovePins(pinned_sessions, session_id)
       /\ sw_resp' = [NoSwResp EXCEPT !.op = "unpin",
                         !.status = IF removed THEN 200 ELSE 404,
                         !.session_id = session_id]
       /\ UNCHANGED <<snVars, evVars, gkVars, sw_events, now>>

\* GET /api/v1/switch/stats
GetStats ==
    /\ sw_req' = NoRoute
    /\ sw_resp' = [NoSwResp EXCEPT !.op = "stats", !.status = 200,
                      !.total_pinned = Len(pinned_sessions),
                      !.active_pins =
                          Len(SelectSeq(pinned_sessions, LAMBDA p : p.pinned_until > now))]
    /\ UNCHANGED <<snVars, evVars, gkVars, pinned_sessions, sw_events, now>>

\* The wall clock advances
Tick ==
    /\ now < MaxTime
    /\ now' = now + 1
    /\ UNCHANGED <<gkVars, swVars, evVars, snVars>>

SwInit ==
    /\ pinned_sessions = <<>>
    /\ sw_req = NoRoute
    /\ sw_resp = NoSwResp
    /\ sw_events = 0

\* ------------------------------------------------------------------------
\* Evidence packages: contents, checksums, the object store
\* ------------------------------------------------------------------------
\* Bounds of the evidence exploration
MaxBuilds == 1
MaxHar == 1
MaxPayloads == 1
MaxPublishes == 2

EventIds == {"e1"}
EvSessionIds == {"s1"}

Range(s) == { s[i] : i \in DOMAIN s }

\* hashlib.sha256(...).hexdigest(): an injective tag around what is hashed.
\* "".join over fixed-width digests is injective too, so the joined
\* checksums are kept as the sequence of the digests.
Sha256(data) == [sha256 |-> data]

\* What the files of a package hold.  session.har is the dump of the HAR
\* entries, metadata.json carries the fresh capture_id of the build, the
\* request count and the tags, a payload file carries the payload value.
HarContent(n) ==
    [file |-> "session.har", entries |-> n, capture_id |-> 0, tags |-> <<>>]
MetadataContent(capture_id, n, tags) ==
    [file |-> "metadata.json", entries |-> n, capture_id |-> capture_id, tags |-> tags]
BehaviorContent ==
    [file |-> "behavior.json", entries |-> 0, capture_id |-> 0, tags |-> <<>>]
PayloadContent ==
    [file |-> "payload", entries |-> 0, capture_id |-> 0, tags |-> <<>>]

\* f"payloads/payload_{i:03d}.txt"
Digits == <<"0", "1", "2", "3", "4", "5", "6", "7", "8", "9">>
PayloadPath(i) == "payloads/payload_00" \o Digits[i + 1] \o ".txt"

PayloadPaths == { PayloadPath(i) : i \in 0..(MaxPayloads - 1) }
RootPaths == {"behavior.json", "metadata.json", "session.har"}

\* Object names in ascending (byte-wise) order, as the store lists them
NameOrder ==
    <<"behavior.json", "metadata.json">>
        \o [i \in 1..MaxPayloads |-> PayloadPath(i - 1)]
        \o <<"session.har">>

\* All orderings of a finite set
Perms(S) ==
    { s \in [1..Cardinality(S) -> S] :
        \A i, j \in 1..Cardinality(S) : i # j => s[i] # s[j] }

\* os.walk(workspace): the files of the top directory in directory order
\* (unspecified), then the files of payloads/ in directory order.
WalkOrders(workspace) ==
    { top \o sub :
        top \in Perms(DOMAIN workspace \cap RootPaths),
        sub \in Perms(DOMAIN workspace \cap PayloadPaths) }

\* f"{event_id}/{relative_path}"
ObjectName(event_id, path) == event_id \o "/" \o path

\* f"s3://{bucket_name}/{event_id}/"
StorageLocation(event_id) == "s3://labyrinth-evidence/" \o event_id \o "/"

\* list_objects(bucket, prefix, recursive=True): the names under the prefix,
\* ascending.  The bucket is keyed by <<event_id, path>>; the prefix of a
\* package is its event id followed by "/".
ListObjects(objects, event_id) ==
    SelectSeq(NameOrder, LAMBDA path : <<event_id, path>> \in DOMAIN objects)

\* A file that is not there
NoContent ==
    [file |-> None, entries |-> 0, capture_id |-> 0, tags |-> <<>>]

\* An empty dict / an empty directory
EmptyDict == [x \in {} |-> NoContent]

NoBuilder ==
    [pc |-> "none", event_id |-> None, session_id |-> None, har_entries |-> 0,
     payloads |-> <<>>, tags |-> <<>>, workspace |-> EmptyDict, workspace_exists |-> FALSE,
     walk |-> <<>>, uploaded_artifacts |-> <<>>, capture_id |-> 0]

NoEvidence ==
    [status |-> "none", event_id |-> None, metadata |-> NoContent, har_log |-> NoContent,
     valid |-> FALSE, artifact_count |-> 0]

\* ------------------------------------------------------------------------
\* Evidence Builder operations (src/shared/evidence/builder.py)
\* ------------------------------------------------------------------------
\* EvidenceBuilder(event_id, session_id, ...): empty collectors, fresh workspace
NewBuilder(event_id, session_id) ==
    /\ builder.pc \in {"none", "done", "failed"}
    /\ builds < MaxBuilds
    /\ builder' = [NoBuilder EXCEPT !.pc = "collecting", !.event_id = event_id,
                                    !.session_id = session_id,
                                    !.workspace_exists = TRUE]
    /\ UNCHANGED <<builds, returned, bucket, topic, bus_result, consumer_offset,
                   evidence, profiler_calls, attacker_profiles, grpVars, gkVars, swVars, snVars, now>>

AddHarEntry ==
    /\ builder.pc = "collecting"
    /\ builder.har_entries < MaxHar
    /\ builder' = [builder EXCEPT !.har_entries = @ + 1]
    /\ UNCHANGED <<builds, returned, bucket, topic, bus_result, consumer_offset,
                   evidence, profiler_calls, attacker_profiles, grpVars, gkVars, swVars, snVars, now>>

AddPayload(save_as_file) ==
    /\ builder.pc = "collecting"
    /\ Len(builder.payloads) < MaxPayloads
    /\ LET file_path == PayloadPath(Len(builder.payloads))
       IN builder' =
            [builder EXCEPT
                !.payloads = Append(@, [save_as_file |-> save_as_file]),
                !.workspace = IF save_as_file
                              THEN (file_path :> PayloadContent) @@ @
                              ELSE @]
    /\ UNCHANGED <<builds, returned, bucket, topic, bus_result, consumer_offset,
                   evidence, profiler_calls, attacker_profiles, grpVars, gkVars, swVars, snVars, now>>

AddTag(tag) ==
    /\ builder.pc = "collecting"
    /\ tag \notin Range(builder.tags)
    /\ builder' = [builder EXCEPT !.tags = Append(@, tag)]
    /\ UNCHANGED <<builds, returned, bucket, topic, bus_result, consumer_offset,
                   evidence, profiler_calls, attacker_profiles, grpVars, gkVars, swVars, snVars, now>>

\* build_and_upload, first part: session.har, metadata.json and (if a profile
\* is given) behavior.json are written, then the walk over the workspace
\* starts.  A build that failed can be called again on the same builder.
BuildAndUpload(behavior_profile) ==
    /\ builder.pc \in {"collecting", "failed"}
    /\ builds < MaxBuilds
    /\ builds' = builds + 1
    /\ LET capture_id == builds + 1
           written ==
              ("session.har" :> HarContent(builder.har_entries))
              @@ ("metadata.json" :>
                    MetadataContent(capture_id, builder.har_entries, builder.tags))
              @@ (IF behavior_profile
                  THEN ("behavior.json" :> BehaviorContent) ELSE EmptyDict)
           workspace == written @@ builder.workspace
       IN \E order \in WalkOrders(workspace) :
            builder' = [builder EXCEPT !.pc = "uploading",
                                       !.capture_id = capture_id,
                                       !.workspace = workspace,
                                       !.walk = order,
                                       !.uploaded_artifacts = <<>>]
    /\ UNCHANGED <<returned, bucket, topic, bus_result, consumer_offset,
                   evidence, profiler_calls, attacker_profiles, grpVars, gkVars, swVars, snVars, now>>

\* except Exception: ... raise -- the build is abandoned where it stands
UploadErrorIgnored(b) == [b EXCEPT !.walk = Tail(@)]

UploadError(b) == [b EXCEPT !.pc = "failed"]

\* One turn of the upload loop: storage.upload_file either stores the object
\* and returns its checksum, or raises.
UploadFile(ok) ==
    /\ builder.pc = "uploading"
    /\ builder.walk # <<>>
    /\ LET path == Head(builder.walk)
           content == builder.workspace[path]
       IN IF ok
          THEN /\ bucket' = (<<builder.event_id, path>> :> content) @@ bucket
               /\ builder' =
                    [builder EXCEPT
                        !.walk = Tail(@),
                        !.uploaded_artifacts =
                            Append(@, [object |-> ObjectName(builder.event_id, path),
                                       checksum |-> Sha256(content)])]
          ELSE /\ builder' = UploadError(builder)
               /\ UNCHANGED bucket
    /\ UNCHANGED <<builds, returned, topic, bus_result, consumer_offset,
                   evidence, profiler_calls, attacker_profiles, grpVars, gkVars, swVars, snVars, now>>

\* sha256("".join(a["checksum"] for a in uploaded_artifacts))
PackageChecksum(uploaded_artifacts) ==
    Sha256([i \in DOMAIN uploaded_artifacts |-> uploaded_artifacts[i].checksum])

\* build_and_upload, last part: the walk is over; the pointer is built, the
\* workspace is removed and the pointer is returned to the caller.
BuildReturn ==
    /\ builder.pc = "uploading"
    /\ builder.walk = <<>>
    /\ LET pointer ==
            [event_id |-> builder.event_id,
             capture_id |-> builder.capture_id,
             session_id |-> builder.session_id,
             location |-> StorageLocation(builder.event_id),
             payload_count |-> Len(builder.payloads),
             request_count |-> builder.har_entries,
             checksum |-> PackageChecksum(builder.uploaded_artifacts),
             tags |-> builder.tags]
       IN returned' = Append(returned, pointer)
    /\ builder' = [builder EXCEPT !.pc = "done", !.workspace = EmptyDict,
                                  !.workspace_exists = FALSE]
    /\ UNCHANGED <<builds, bucket, topic, bus_result, consumer_offset,
                   evidence, profiler_calls, attacker_profiles, grpVars, gkVars, swVars, snVars, now>>

\* ------------------------------------------------------------------------
\* Evidence topic (src/shared/messaging/event_bus.py)
\* ------------------------------------------------------------------------
PublishKeySession(pointer_dict) == pointer_dict.session_id

\* key=pointer_dict.get("event_id")
PublishKey(pointer_dict) == pointer_dict.event_id

\* event_bus.publish_evidence_pointer(pointer): the caller of the builder
\* hands a returned pointer to the bus; publish returns False on any error.
PublishEvidencePointer(pointer, ok) ==
    /\ Len(topic) < MaxPublishes
    /\ pointer \in Range(returned)
    /\ topic' = IF ok
                THEN Append(topic, [key |-> PublishKey(pointer), value |-> pointer])
                ELSE topic
    /\ bus_result' = ok
    /\ UNCHANGED <<builder, builds, returned, bucket, consumer_offset,
                   evidence, profiler_calls, attacker_profiles, grpVars, gkVars, swVars, snVars, now>>

\* ------------------------------------------------------------------------
\* Evidence Retriever and the Sentinel consumer
\* ------------------------------------------------------------------------
\* BehavioralProfiler (the profiler start_evidence_consumer is given)
\* defines analyze_session and cluster_sessions, and no profile_session.
ProfilerHasProfileSession == FALSE

\* EvidenceRetriever.retrieve: list, download, recompute, parse
Retrieve(pointer, objects) ==
    LET names == ListObjects(objects, pointer.event_id)
        downloaded_checksums ==
            [i \in DOMAIN names |-> Sha256(objects[<<pointer.event_id, names[i]>>])]
        present(path) == <<pointer.event_id, path>> \in DOMAIN objects
    IN [status |-> "ok",
        event_id |-> pointer.event_id,
        metadata |-> IF present("metadata.json")
                     THEN objects[<<pointer.event_id, "metadata.json">>]
                     ELSE NoContent,
        har_log |-> IF present("session.har")
                    THEN objects[<<pointer.event_id, "session.har">>]
                    ELSE NoContent,
        valid |-> (Sha256(downloaded_checksums) = pointer.checksum),
        artifact_count |-> Len(names)]

\* A retrieve that treats a checksum mismatch as a failure
RetrieveRaisesOnMismatch(storage_ok, result) == ~storage_ok \/ ~result.valid

\* retrieve, "except Exception ... raise": listing or downloading failed.  A
\* checksum mismatch is logged as a warning and sets valid = False only.
RetrieveRaises(storage_ok, result) == ~storage_ok

\* A subscriber loop that an exception of the handler ends
ExceptionEscapes(failed) == ~failed

\* _handle_evidence_pointer, "except Exception as e: logger.error(...)", and
\* the same around the handler call in subscribe: the loop goes on
ExceptionCaught(failed) == TRUE

\* _handle_evidence_pointer for the next message of the topic, with the
\* analysis handler of create_analysis_handler.  The iterator advances the
\* position when it yields the message; the handler catches every exception,
\* so it returns whatever happens and the loop goes on.
HandlePointer(parse_ok, storage_ok) ==
    /\ consumer_running
    /\ consumer_offset < Len(topic)
    /\ consumer_offset' = consumer_offset + 1
    /\ handled' = handled \cup {consumer_offset + 1}
    /\ LET result == Retrieve(topic[consumer_offset + 1].value, bucket)
           failed == \/ ~parse_ok
                     \/ RetrieveRaises(storage_ok, result)
                     \/ /\ result.har_log # NoContent /\ result.metadata # NoContent
                        /\ ~ProfilerHasProfileSession
       IN consumer_running' = ExceptionCaught(failed)
    /\ UNCHANGED <<running, committed, crashed_in, crashes>>
    /\ LET pointer == topic[consumer_offset + 1].value
           result == Retrieve(pointer, bucket)
           complete == result.har_log # NoContent /\ result.metadata # NoContent
       IN IF ~parse_ok
          THEN \* EvidencePointer.model_validate raised: logged, retrieve is
               \* never called
               UNCHANGED <<evidence, profiler_calls, attacker_profiles>>
          ELSE IF RetrieveRaises(storage_ok, result)
          THEN \* retrieve raised: logged, nothing else happens
               /\ evidence' = [NoEvidence EXCEPT !.status = "error",
                                                 !.event_id = pointer.event_id]
               /\ UNCHANGED <<profiler_calls, attacker_profiles>>
          ELSE /\ evidence' = result
               /\ IF ~complete
                  THEN UNCHANGED <<profiler_calls, attacker_profiles>>
                  ELSE /\ profiler_calls' =
                            Append(profiler_calls,
                                   [event_id |-> pointer.event_id,
                                    session_id |-> pointer.session_id,
                                    captures |-> result.har_log.entries])
                       /\ IF ProfilerHasProfileSession
                          THEN attacker_profiles' =
                                 (("profile_" \o pointer.session_id) :>
                                    [session_id |-> pointer.session_id,
                                     profile |-> result.har_log.entries,
                                     timestamp |-> now])
                                 @@ attacker_profiles
                          ELSE \* AttributeError, caught and logged
                               UNCHANGED attacker_profiles
    /\ UNCHANGED <<builder, builds, returned, bucket, topic, bus_result,
                   gkVars, swVars, snVars, now>>

\* _handle_evidence_pointer for a message that publish_evidence_pointer wrote:
\* it is the dump of an EvidencePointer and parses as one
HandleEvidencePointer(storage_ok) == HandlePointer(TRUE, storage_ok)

\* EvidenceConsumer.stop: the flag is cleared and the thread is joined for at
\* most five seconds.  The loop of subscribe never reads the flag and the
\* KafkaConsumer is not closed, so the join times out and the thread goes on.
Stop ==
    /\ running
    /\ running' = FALSE
    /\ UNCHANGED <<builder, builds, returned, bucket, topic, bus_result,
                   consumer_offset, evidence, profiler_calls, attacker_profiles,
                   consumer_running, committed, handled, crashed_in, crashes,
                   gkVars, swVars, snVars, now>>

\* Bound of the consumer-process exploration
MaxCrashes == 1

NoCommit == [known |-> FALSE, offset |-> 0]

\* enable_auto_commit=True: the consumer commits its position from inside
\* the poll that fetches the next messages, that is between two handler
\* calls of the subscriber thread.
AutoCommit ==
    /\ consumer_running
    /\ committed # [known |-> TRUE, offset |-> consumer_offset]
    /\ committed' = [known |-> TRUE, offset |-> consumer_offset]
    /\ UNCHANGED <<builder, builds, returned, bucket, topic, bus_result,
                   consumer_offset, evidence, profiler_calls, attacker_profiles,
                   consumer_running, running, handled, crashed_in, crashes,
                   gkVars, swVars, snVars, now>>

CommitAtYield(c, position) == [known |-> TRUE, offset |-> position]

\* What the group has committed when the process dies inside a handler: the
\* position advanced at the yield lives in the process only.
CommitAtCrash(c, position) == c

\* The consumer process dies (daemon thread, no shutdown hook), either while
\* it waits in poll or while the handler of a yielded message is running.
ConsumerCrash(in_handler) ==
    /\ consumer_running
    /\ crashes < MaxCrashes
    /\ in_handler => consumer_offset < Len(topic)
    /\ consumer_running' = FALSE
    /\ crashes' = crashes + 1
    /\ crashed_in' = IF in_handler THEN consumer_offset + 1 ELSE 0
    /\ committed' = IF in_handler
                    THEN CommitAtCrash(committed, consumer_offset + 1)
                    ELSE committed
    /\ UNCHANGED <<builder, builds, returned, bucket, topic, bus_result,
                   consumer_offset, evidence, profiler_calls, attacker_profiles,
                   running, handled, gkVars, swVars, snVars, now>>

\* start_evidence_consumer after a restart: subscribe with the same group;
\* the position is the committed offset, or the end of the topic when the
\* group has none (auto_offset_reset='latest').
ConsumerStart ==
    /\ ~consumer_running
    /\ consumer_running' = TRUE
    /\ running' = TRUE
    /\ consumer_offset' = IF committed.known THEN committed.offset ELSE Len(topic)
    /\ UNCHANGED <<builder, builds, returned, bucket, topic, bus_result,
                   evidence, profiler_calls, attacker_profiles,
                   committed, handled, crashed_in, crashes, gkVars, swVars, snVars, now>>

EvInit ==
    /\ builder = NoBuilder
    /\ builds = 0
    /\ returned = <<>>
    /\ bucket = EmptyDict
    /\ topic = <<>>
    /\ bus_result = TRUE
    /\ consumer_offset = 0
    /\ evidence = NoEvidence
    /\ profiler_calls = <<>>
    /\ attacker_profiles = EmptyDict
    /\ consumer_running = TRUE
    /\ running = TRUE
    /\ committed = NoCommit
    /\ handled = {}
    /\ crashed_in = 0
    /\ crashes = 0

\* ------------------------------------------------------------------------
\* Sentinel: payload simulator, rule generator, policy orchestrator
\* (src/sentinel/simulator/payload_simulator.py,
\*  src/sentinel/rule_gen/rule_generator.py, src/sentinel/api/main.py)
\*
\* Units.  Severities and sophistication scores are tenths (100 stands for
\* 10.0), payload confidences are hundredths (100 stands for 1.00) and rule
\* confidences are thousandths (900 stands for 0.90).  The inputs below are
\* values on which the float arithmetic of the source and the exact
\* arithmetic used here take the same side of every threshold.
\* A rule id (a fresh uuid in the source) is the rule's position in
\* generated_rules; a job id ("sim_" + the wall clock in seconds) is the
\* value of now at the request.
\* ------------------------------------------------------------------------
MaxSims == 1
MaxRules == 1
MaxPushes == 1
MaxJobs == 2
MaxApplies == 2

AUTO_APPLY_THRESHOLD == 900
REVIEW_THRESHOLD == 700

PayloadTypes == {"command_injection"}
PayloadInputs == {[type |-> t, confidence |-> c] : t \in PayloadTypes, c \in {50, 100}}
NoProfile == [present |-> FALSE, sophistication_score |-> 0]
ProfileInputs == {NoProfile, [present |-> TRUE, sophistication_score |-> 100]}
Verdicts == {"exploit_possible", "exploit_improbable", "error", None}
SimResultInputs ==
    {[verdict |-> v, severity |-> s, has_attack_type |-> TRUE] :
        v \in Verdicts, s \in {55, 100}}

\* the steps of simulate's try block that call out to Docker, in order
Stages == <<"network", "container", "deploy", "execute", "collect">>
FailPoints == Range(Stages) \cup {"none"}
\* the Docker calls of _destroy_sandbox, in order
TeardownSteps == <<"stop", "remove", "network_remove">>
TeardownFailPoints == Range(TeardownSteps) \cup {"none"}

StageIndex(stage) == CHOOSE i \in 1..Len(Stages) : Stages[i] = stage
TeardownIndex(step) == CHOOSE i \in 1..Len(TeardownSteps) : TeardownSteps[i] = step

\* _calculate_severity
CalculateSeverity(verdict, payload) ==
    IF verdict = "exploit_improbable" THEN 0
    ELSE LET base == IF payload.type = "sql_injection" THEN 90
                     ELSE IF payload.type = "command_injection" THEN 100
                     ELSE 50
             adjusted == (base * payload.confidence) \div 100
         IN IF adjusted > 100 THEN 100 ELSE adjusted

\* simulate's handler "except Exception": which failing steps it converts
\* into an error result instead of letting them reach the caller
CaughtProvisioningOnly(fail_at) ==
    fail_at \in {"network", "container"}

CaughtBySimulate(fail_at) ==
    fail_at \in Range(Stages)

\* simulate's finally block: "if 'sandbox' in locals()"; the name is bound
\* only when _provision_sandbox returned
SandboxBound(fail_at) ==
    fail_at = "none" \/ StageIndex(fail_at) > StageIndex("container")

\* what one simulate call leaves behind and hands back.
\*   fail_at       the first step of the try block that raises ("none": none)
\*   exploit       whether the sandbox output shows the exploit working
\*   teardown_fail the first Docker call of _destroy_sandbox that raises
Simulate(payload, fail_at, exploit, teardown_fail) ==
    LET network_created == fail_at # "network"
        container_created == fail_at \notin {"network", "container"}
        destroy_called == SandboxBound(fail_at)
        \* _destroy_sandbox stops at the first call that raises
        TeardownDone(step) ==
            /\ destroy_called
            /\ \/ teardown_fail = "none"
               \/ TeardownIndex(step) < TeardownIndex(teardown_fail)
        verdict == IF exploit THEN "exploit_possible" ELSE "exploit_improbable"
    IN [ raised |-> fail_at # "none" /\ ~CaughtBySimulate(fail_at),
         result |-> IF fail_at # "none"
                    THEN [verdict |-> "error", severity |-> 0,
                          has_attack_type |-> FALSE]
                    ELSE [verdict |-> verdict,
                          severity |-> CalculateSeverity(verdict, payload),
                          has_attack_type |-> TRUE],
         network_left |-> network_created /\ ~TeardownDone("network_remove"),
         container_left |-> container_created /\ ~TeardownDone("remove"),
         provisioned |-> network_created,
         teardown_called |-> destroy_called ]

\* A confidence whose profile term, without a profile, is the full 0.2
CalculateConfidenceFullDefault(sim_result, profile, payload) ==
    LET c == sim_result.severity * 4
             + payload.confidence * 3
             + (IF profile.present THEN profile.sophistication_score * 2 ELSE 200)
             + 80
    IN IF c > 1000 THEN 1000 ELSE c

\* _calculate_confidence
CalculateConfidence(sim_result, profile, payload) ==
    LET c == sim_result.severity * 4
             + payload.confidence * 3
             + (IF profile.present THEN profile.sophistication_score * 2 ELSE 100)
             + 80
    IN IF c > 1000 THEN 1000 ELSE c

\* _determine_action
DetermineRuleAction(severity, confidence) ==
    IF severity >= 90 /\ confidence >= 850 THEN "block"
    ELSE IF severity >= 70 /\ confidence >= 750 THEN "block"
    ELSE IF severity >= 50 /\ confidence >= 700 THEN "challenge"
    ELSE "tag"

\* generate_rule's first test: the verdicts for which a rule is built
VerdictAllowsRuleUnlessImprobable(sim_result) ==
    sim_result.verdict # "exploit_improbable"

VerdictAllowsRule(sim_result) ==
    sim_result.verdict = "exploit_possible"

\* A priority that is not clamped from above
AssignPriorityUnclamped(severity, confidence) ==
    Max(50, severity + ((confidence * 30) \div 1000) + 50)

\* _assign_priority: int(severity * 10) + int(confidence * 30) + 50, clamped
\* to 50..150 (severity in tenths, confidence in thousandths)
AssignPriority(severity, confidence) ==
    Max(50, Min(150, severity + ((confidence * 30) \div 1000) + 50))

\* _determine_locations
DetermineLocations(payload_type) ==
    IF payload_type = "sql_injection" THEN {"args", "body", "json_values"}
    ELSE IF payload_type = "xss" THEN {"args", "body", "headers", "json_values"}
    ELSE IF payload_type = "command_injection" THEN {"args", "body"}
    ELSE IF payload_type = "path_traversal" THEN {"args", "uri"}
    ELSE {"args", "body"}

NoRule == [rule_id |-> 0, confidence |-> 0, action |-> "none",
           attack_type |-> "none", severity |-> 0, priority |-> 0,
           location |-> {}]

\* generate_rule; NoRule stands for the None it returns
GenerateRule(payload, sim_result, profile, rule_id) ==
    IF ~VerdictAllowsRule(sim_result) THEN NoRule
    ELSE LET confidence == CalculateConfidence(sim_result, profile, payload)
         IN [rule_id |-> rule_id,
             confidence |-> confidence,
             action |-> DetermineRuleAction(sim_result.severity, confidence),
             attack_type |-> payload.type,
             severity |-> sim_result.severity,
             priority |-> AssignPriority(sim_result.severity, confidence),
             location |-> DetermineLocations(payload.type)]

\* orchestrate_policy: the comparison against the auto-apply threshold
AboveAutoApplyStrict(confidence) ==
    confidence > AUTO_APPLY_THRESHOLD

AboveAutoApply(confidence) ==
    confidence >= AUTO_APPLY_THRESHOLD

\* orchestrate_policy
OrchestratePolicy(rule, force) ==
    IF force THEN "auto_applied"
    ELSE IF AboveAutoApply(rule.confidence) THEN "auto_applied"
    ELSE IF rule.confidence >= REVIEW_THRESHOLD THEN "pending_review"
    ELSE "logged_only"

\* push_rule_to_gatekeeper: one POST; anything but a 200/201 answer is False
PushOutcomes == {"created", "unreachable"}
PushRuleToGatekeeper(outcome) == outcome = "created"

RuleGeneratedEvent(rule, action) ==
    [type |-> "rule_generated", rule_id |-> rule.rule_id, action |-> action]

\* verdict: the verdict of the simulation result the operation worked on
NoSnResp == [op |-> "none", status |-> 0, rule_id |-> 0, decision |-> "none",
             verdict |-> "none"]

\* POST /api/v1/sentinel/profile
ProfileSession(session_id, profile) ==
    /\ session_id \notin DOMAIN attacker_profiles
    /\ attacker_profiles' = (session_id :> profile) @@ attacker_profiles
    /\ sn_resp' = [NoSnResp EXCEPT !.op = "profile_session", !.status = 200]
    /\ UNCHANGED <<simulation_results, generated_rules, sn_events, pushes, sn_tasks,
                   docker_networks, docker_containers, sim_runs, sim_return>>
    /\ UNCHANGED <<builder, builds, returned, bucket, topic, bus_result,
                   consumer_offset, evidence, profiler_calls, grpVars,
                   gkVars, swVars, now>>

\* The result slot of a background task that has not run simulate yet
NoSimResult == [verdict |-> "none", severity |-> 0, has_attack_type |-> FALSE]

\* job_id = f"sim_{utcnow().strftime('%Y%m%d_%H%M%S')}": the clock, to the second
JobId == now

\* POST /api/v1/sentinel/simulate: queue the job, hand it to a background task
SimulateCall(payload, session_id) ==
    /\ simulation_results' =
           (JobId :> [status |-> "queued", payload |-> payload,
                      verdict |-> "none"]) @@ simulation_results
    /\ sn_tasks' = Append(sn_tasks, [job_id |-> JobId, payload |-> payload,
                                     session_id |-> session_id,
                                     pc |-> "queued", result |-> NoSimResult])
    /\ sn_resp' = [NoSnResp EXCEPT !.op = "simulate_payload", !.status = 200]
    /\ UNCHANGED <<generated_rules, sn_events, pushes,
                   docker_networks, docker_containers, sim_runs, sim_return>>
    /\ UNCHANGED <<evVars, gkVars, swVars, now>>

\* the endpoint, explored for one job at a time
SimulatePayload(payload, session_id) ==
    /\ sim_runs + Len(sn_tasks) < MaxSims
    /\ SimulateCall(payload, session_id)

\* the endpoint, explored with several jobs in flight
SimulateSeveral(payload, session_id) ==
    /\ sim_runs + Len(sn_tasks) < MaxJobs
    /\ SimulateCall(payload, session_id)

\* POST /api/v1/sentinel/rule-propose
ProposeRule(payload, sim_result, profile) ==
    /\ LET rule == GenerateRule(payload, sim_result, profile,
                                Len(generated_rules) + 1)
       IN IF rule = NoRule
          THEN /\ sn_resp' = [NoSnResp EXCEPT !.op = "propose_rule", !.status = 400,
                                              !.verdict = sim_result.verdict]
               /\ UNCHANGED generated_rules
          ELSE /\ Len(generated_rules) < MaxRules
               /\ generated_rules' = Append(generated_rules, rule)
               /\ sn_resp' = [NoSnResp EXCEPT !.op = "propose_rule", !.status = 200,
                                              !.rule_id = rule.rule_id,
                                              !.verdict = sim_result.verdict]
    /\ UNCHANGED <<simulation_results, sn_events, pushes, sn_tasks,
                   docker_networks, docker_containers, sim_runs, sim_return>>
    /\ UNCHANGED <<evVars, gkVars, swVars, now>>

\* POST /api/v1/sentinel/rule-apply
ApplyCall(rule_id, force, push_outcome) ==
    IF rule_id \notin 1..Len(generated_rules)
    THEN /\ sn_resp' = [NoSnResp EXCEPT !.op = "apply_rule", !.status = 404]
         /\ UNCHANGED <<simulation_results, generated_rules, sn_events, pushes,
                        sn_tasks, docker_networks, docker_containers, sim_runs,
                        sim_return>>
         /\ UNCHANGED <<evVars, gkVars, swVars, now>>
    ELSE LET rule == generated_rules[rule_id]
             decision == OrchestratePolicy(rule, force)
         IN /\ IF decision = "auto_applied"
               THEN /\ pushes' = Append(pushes, [rule_id |-> rule_id,
                                                 outcome |-> push_outcome])
                    /\ IF ~PushRuleToGatekeeper(push_outcome)
                       THEN /\ sn_resp' = [op |-> "apply_rule", status |-> 500,
                                           rule_id |-> rule_id, decision |-> "none",
                                   verdict |-> "none"]
                            /\ UNCHANGED sn_events
                       ELSE /\ sn_events' = Append(sn_events,
                                   RuleGeneratedEvent(rule, "auto_applied"))
                            /\ sn_resp' = [op |-> "apply_rule", status |-> 200,
                                           rule_id |-> rule_id, decision |-> decision,
                                   verdict |-> "none"]
               ELSE /\ sn_resp' = [op |-> "apply_rule", status |-> 200,
                                   rule_id |-> rule_id, decision |-> decision,
                                   verdict |-> "none"]
                    /\ UNCHANGED <<pushes, sn_events>>
            /\ UNCHANGED <<simulation_results, generated_rules, sn_tasks,
                           docker_networks, docker_containers, sim_runs, sim_return>>
            /\ UNCHANGED <<evVars, gkVars, swVars, now>>

\* the endpoint, explored while at most MaxPushes pushes were made; the
\* engine's answer to the push is an input
ApplyRule(rule_id, force, push_outcome) ==
    /\ ApplyCall(rule_id, force, push_outcome)
    /\ Len(pushes') <= MaxPushes

\* The inspection engine's answer to a push of the rule: create_rule answers
\* 409 for a rule id it already holds, which it does when an earlier push
\* of the rule was answered "created" (nothing deletes rules here)
EngineHolds(rule_id) ==
    \E i \in 1..Len(pushes) :
       pushes[i].rule_id = rule_id /\ pushes[i].outcome = "created"

EngineAnswer(rule_id) == IF EngineHolds(rule_id) THEN "conflict" ELSE "created"

\* the endpoint, with the engine reachable and answering as create_rule does
ApplyToEngine(rule_id, force) ==
    /\ Len(pushes) < MaxApplies
    /\ ApplyCall(rule_id, force, EngineAnswer(rule_id))

\* auto_generate_rule, as the changes it makes to
\* <<generated_rules, pushes, sn_events, decision>>
AutoGenerateRule(payload, sim_result, session_id, push_outcome) ==
    LET profile == IF session_id # None /\ session_id \in DOMAIN attacker_profiles
                   THEN attacker_profiles[session_id]
                   ELSE NoProfile
        rule == GenerateRule(payload, sim_result, profile, Len(generated_rules) + 1)
        decision == OrchestratePolicy(rule, FALSE)
    IN IF rule = NoRule
       THEN [rules |-> generated_rules, pushes |-> pushes, events |-> <<>>,
             rule_id |-> 0, decision |-> "none"]
       ELSE [rules |-> Append(generated_rules, rule),
             pushes |-> IF decision = "auto_applied"
                        THEN Append(pushes, [rule_id |-> rule.rule_id,
                                             outcome |-> push_outcome])
                        ELSE pushes,
             \* the push's result is not looked at
             events |-> <<RuleGeneratedEvent(rule, decision)>>,
             rule_id |-> rule.rule_id,
             decision |-> decision]

\* run_simulation: the background task of one queued job, simulate included
RunSimulation(fail_at, exploit, teardown_fail, push_outcome) ==
    /\ sn_tasks # <<>>
    /\ LET task == Head(sn_tasks)
           sim == Simulate(task.payload, fail_at, exploit, teardown_fail)
           sim_event == [type |-> "simulation_complete", rule_id |-> 0,
                         action |-> sim.result.verdict]
           auto == AutoGenerateRule(task.payload, sim.result, task.session_id,
                                    push_outcome)
           n == sim_runs + 1
       IN /\ sn_tasks' = Tail(sn_tasks)
          /\ sim_runs' = n
          /\ docker_networks' = docker_networks \cup
                                (IF sim.network_left THEN {n} ELSE {})
          /\ docker_containers' = docker_containers \cup
                                  (IF sim.container_left THEN {n} ELSE {})
          /\ sim_return' = [run |-> n,
                            raised |-> sim.raised,
                            fail_at |-> fail_at,
                            teardown_fail |-> IF sim.teardown_called
                                              THEN teardown_fail ELSE "none",
                            provisioned |-> sim.provisioned,
                            verdict |-> IF sim.raised THEN "none"
                                        ELSE sim.result.verdict,
                            severity |-> IF sim.raised THEN 0
                                         ELSE sim.result.severity]
          /\ IF sim.raised \/ ~sim.result.has_attack_type
             THEN \* simulate raised, or emit_simulation_event raised KeyError
                  \* on result["attack_type"]: the job is marked failed
                  /\ simulation_results' =
                         [simulation_results EXCEPT ![task.job_id] =
                             [@ EXCEPT !.status = "failed",
                                       !.verdict = IF sim.raised THEN "none"
                                                   ELSE sim.result.verdict]]
                  /\ sn_resp' = [NoSnResp EXCEPT !.op = "run_simulation",
                                                 !.verdict = IF sim.raised THEN "none"
                                                             ELSE sim.result.verdict]
                  /\ UNCHANGED <<generated_rules, pushes, sn_events>>
             ELSE /\ simulation_results' =
                         [simulation_results EXCEPT ![task.job_id] =
                             [@ EXCEPT !.status = "completed",
                                       !.verdict = sim.result.verdict]]
                  /\ IF sim.result.verdict = "exploit_possible"
                     THEN /\ generated_rules' = auto.rules
                          /\ pushes' = auto.pushes
                          /\ sn_events' = Append(sn_events, sim_event) \o auto.events
                          /\ sn_resp' = [op |-> "auto_generate_rule", status |-> 0,
                                         rule_id |-> auto.rule_id,
                                         decision |-> auto.decision,
                                         verdict |-> sim.result.verdict]
                     ELSE /\ sn_events' = Append(sn_events, sim_event)
                          /\ sn_resp' = [NoSnResp EXCEPT !.op = "run_simulation",
                                                 !.verdict = IF sim.raised THEN "none"
                                                             ELSE sim.result.verdict]
                          /\ UNCHANGED <<generated_rules, pushes>>
    /\ (fail_at = "none" /\ exploit) =>
           (Len(generated_rules) < MaxRules /\ Len(pushes) < MaxPushes)
    /\ UNCHANGED <<evVars, gkVars, swVars, now>>

RemoveAt(seq, i) == SubSeq(seq, 1, i - 1) \o SubSeq(seq, i + 1, Len(seq))

\* run_simulation, step by step as the status endpoint can observe it (the
\* task runs on a worker thread).  First step: status = "running"
TaskStart(i) ==
    /\ i \in DOMAIN sn_tasks
    /\ sn_tasks[i].pc = "queued"
    /\ simulation_results' =
           [simulation_results EXCEPT ![sn_tasks[i].job_id].status = "running"]
    /\ sn_tasks' = [sn_tasks EXCEPT ![i].pc = "running"]
    /\ sn_resp' = [NoSnResp EXCEPT !.op = "run_simulation"]
    /\ UNCHANGED <<generated_rules, sn_events, pushes,
                   docker_networks, docker_containers, sim_runs, sim_return>>
    /\ UNCHANGED <<evVars, gkVars, swVars, now>>

\* run_simulation: simulator.simulate returns (its teardown succeeding) and
\* the job is updated: status = "completed", result
TaskSimulate(i, fail_at, exploit) ==
    /\ i \in DOMAIN sn_tasks
    /\ sn_tasks[i].pc = "running"
    /\ LET task == sn_tasks[i]
           sim == Simulate(task.payload, fail_at, exploit, "none")
       IN /\ simulation_results' =
                 [simulation_results EXCEPT ![task.job_id] =
                     [@ EXCEPT !.status = "completed",
                               !.verdict = sim.result.verdict]]
          /\ sn_tasks' = [sn_tasks EXCEPT ![i].pc = "completed",
                                          ![i].result = sim.result]
          /\ sn_resp' = [NoSnResp EXCEPT !.op = "run_simulation",
                                         !.verdict = sim.result.verdict]
    /\ UNCHANGED <<generated_rules, sn_events, pushes,
                   docker_networks, docker_containers, sim_runs, sim_return>>
    /\ UNCHANGED <<evVars, gkVars, swVars, now>>

\* run_simulation: the rest of the try block after the job was updated.
\* emit_simulation_event reads result["attack_type"], which an error result
\* does not have, or cannot save the event (event_saved false): the exception
\* is caught by run_simulation's handler, which marks the job failed.
TaskEmit(i, event_saved, push_outcome) ==
    /\ i \in DOMAIN sn_tasks
    /\ sn_tasks[i].pc = "completed"
    /\ LET task == sn_tasks[i]
           sim_event == [type |-> "simulation_complete", rule_id |-> 0,
                         action |-> task.result.verdict]
           auto == AutoGenerateRule(task.payload, task.result, task.session_id,
                                    push_outcome)
       IN /\ sn_tasks' = RemoveAt(sn_tasks, i)
          /\ sim_runs' = sim_runs + 1
          /\ sn_resp' = [NoSnResp EXCEPT !.op = "run_simulation",
                                         !.verdict = task.result.verdict]
          /\ IF ~task.result.has_attack_type \/ ~event_saved
             THEN /\ simulation_results' =
                         [simulation_results EXCEPT ![task.job_id].status = "failed"]
                  /\ UNCHANGED <<generated_rules, pushes, sn_events>>
             ELSE /\ UNCHANGED simulation_results
                  /\ IF task.result.verdict = "exploit_possible"
                     THEN /\ Len(generated_rules) < MaxRules
                          /\ Len(pushes) < MaxPushes
                          /\ generated_rules' = auto.rules
                          /\ pushes' = auto.pushes
                          /\ sn_events' = Append(sn_events, sim_event) \o auto.events
                     ELSE /\ sn_events' = Append(sn_events, sim_event)
                          /\ UNCHANGED <<generated_rules, pushes>>
    /\ UNCHANGED <<docker_networks, docker_containers, sim_return>>
    /\ UNCHANGED <<evVars, gkVars, swVars, now>>

SnInit ==
    /\ simulation_results = EmptyDict
    /\ generated_rules = <<>>
    /\ sn_events = <<>>
    /\ pushes = <<>>
    /\ sn_resp = NoSnResp
    /\ sn_tasks = <<>>
    /\ docker_networks = {}
    /\ docker_containers = {}
    /\ sim_runs = 0
    /\ sim_return = [run |-> 0, raised |-> FALSE, fail_at |-> "none",
                     teardown_fail |-> "none", provisioned |-> FALSE,
                     verdict |-> "none", severity |-> 0]

\* ------------------------------------------------------------------------
\* Specifications
\* ------------------------------------------------------------------------
Init ==
    /\ GkInit
    /\ SwInit
    /\ EvInit
    /\ SnInit
    /\ now = 0

\* The inspection engine on its own
NextGatekeeper ==
    \/ \E req \in InspectInputs : InspectRequest(req)
    \/ \E rule \in RuleInputs : CreateRule(rule)
    \/ \E id \in RuleIds : DeleteRule(id)
    \/ \E id \in RuleIds, enabled \in BOOLEAN : ToggleRule(id, enabled)

SpecGatekeeper == Init /\ [][NextGatekeeper]_vars

\* The session router on its own
NextSwitch ==
    \/ \E req \in PinInputs : PinSession(req)
    \/ \E req \in RouteInputs : GetRoute(req)
    \/ ListSessions
    \/ \E sid \in SwSessionIds : GetSession(sid)
    \/ \E sid \in SwSessionIds : UnpinSession(sid)
    \/ GetStats
    \/ Tick

SpecSwitch == Init /\ [][NextSwitch]_vars

\* Pins and the route calls they do and do not match.  A bearer token is any
\* string the caller sends: one of them is the text a pin's fingerprint is
\* the digest of
PinScopeRouteInputs ==
    { [session_id |-> s, client_ip |-> ip, user_agent |-> "ua",
       cookie_session |-> c, jwt_token |-> j] :
        s \in SwSessionIds \cup {None}, ip \in SwClientIps,
        c \in {"s1", None}, j \in {None, ":ip1"} }

NextPinScope ==
    \/ \E req \in PinInputs : PinSession(req)
    \/ \E req \in PinScopeRouteInputs : GetRoute(req)
    \/ Tick

SpecPinScope == Init /\ [][NextPinScope]_vars

\* Pins of two sessions, one of them pinned from two client addresses, and
\* their removal
NextUnpin ==
    \/ \E req \in PinInputs : PinSeveral(req)
    \/ \E sid \in SwSessionIds \cup {"s2"} : UnpinSession(sid)
    \/ Tick

SpecUnpin == Init /\ [][NextUnpin]_vars

\* The inspection engine and the session router side by side, as they are
\* deployed: nothing in the engine calls the router.
PlatformInspectInputs ==
    { MkRequest(t, "s1", "ip1", ml) :
        t \in {[url |-> <<"/">>, body |-> <<>>, headers |-> <<>>]}, ml \in MlScores }

PlatformPinInputs == { req \in PinInputs : req.session_id = "s1" }

PlatformRouteInputs ==
    { req \in RouteInputs :
        req.session_id = "s1" /\ req.cookie_session = None /\ req.jwt_token = None }

NextPlatform ==
    \/ \E req \in PlatformInspectInputs : InspectRequest(req)
    \/ \E req \in PlatformPinInputs : PinSession(req)
    \/ \E req \in PlatformRouteInputs : GetRoute(req)
    \/ \E sid \in {"s1"} : UnpinSession(sid)
    \/ Tick

SpecPlatform == Init /\ [][NextPlatform]_vars

\* The Evidence Builder with the object store and the topic
NextBuilder ==
    \/ \E e \in EventIds, s \in EvSessionIds : NewBuilder(e, s)
    \/ AddHarEntry
    \/ \E save_as_file \in BOOLEAN : AddPayload(save_as_file)
    \/ \E behavior_profile \in {FALSE} : BuildAndUpload(behavior_profile)
    \/ \E ok \in BOOLEAN : UploadFile(ok)
    \/ BuildReturn
    \/ \E i \in DOMAIN returned, ok \in BOOLEAN : PublishEvidencePointer(returned[i], ok)

SpecBuilder == Init /\ [][NextBuilder]_vars

\* The consumer process over a topic fed by plain builds: deliveries, the
\* automatic offset commit, process death and restart
NextConsumer ==
    \/ \E e \in EventIds, s \in EvSessionIds : NewBuilder(e, s)
    \/ \E behavior_profile \in {FALSE} : BuildAndUpload(behavior_profile)
    \/ \E ok \in {TRUE} : UploadFile(ok)
    \/ BuildReturn
    \/ \E i \in DOMAIN returned, ok \in {TRUE} : PublishEvidencePointer(returned[i], ok)
    \/ \E storage_ok \in BOOLEAN : HandleEvidencePointer(storage_ok)
    \/ AutoCommit
    \/ \E in_handler \in BOOLEAN : ConsumerCrash(in_handler)
    \/ ConsumerStart

SpecConsumer == Init /\ [][NextConsumer]_vars

\* The evidence pipeline with an object store that answers every call
NextRetrieval ==
    \/ \E e \in EventIds, s \in EvSessionIds : NewBuilder(e, s)
    \/ AddHarEntry
    \/ \E save_as_file \in BOOLEAN : AddPayload(save_as_file)
    \/ \E behavior_profile \in {FALSE} : BuildAndUpload(behavior_profile)
    \/ \E ok \in BOOLEAN : UploadFile(ok)
    \/ BuildReturn
    \/ \E i \in DOMAIN returned, ok \in {TRUE} : PublishEvidencePointer(returned[i], ok)
    \/ \E storage_ok \in {TRUE} : HandleEvidencePointer(storage_ok)

SpecRetrieval == Init /\ [][NextRetrieval]_vars

\* The consumer and a shutdown request, over a topic fed by plain builds
NextShutdown ==
    \/ \E e \in EventIds, s \in EvSessionIds : NewBuilder(e, s)
    \/ AddHarEntry
    \/ \E behavior_profile \in {FALSE} : BuildAndUpload(behavior_profile)
    \/ \E ok \in {TRUE} : UploadFile(ok)
    \/ BuildReturn
    \/ \E i \in DOMAIN returned, ok \in {TRUE} : PublishEvidencePointer(returned[i], ok)
    \/ \E storage_ok \in BOOLEAN : HandleEvidencePointer(storage_ok)
    \/ Stop

SpecShutdown == Init /\ [][NextShutdown]_vars

\* The subscriber thread over the same topic, with messages that do not parse
\* as pointers and a store that may fail.  The thread sits in the iterator of
\* the KafkaConsumer and is handed every message that is there for it.
HandleNext == \E parse_ok \in BOOLEAN, storage_ok \in BOOLEAN :
                 HandlePointer(parse_ok, storage_ok)

NextDelivery ==
    \/ \E e \in EventIds, s \in EvSessionIds : NewBuilder(e, s)
    \/ AddHarEntry
    \/ \E tag \in {"sql_injection"} : AddTag(tag)
    \/ \E behavior_profile \in {FALSE} : BuildAndUpload(behavior_profile)
    \/ \E ok \in {TRUE} : UploadFile(ok)
    \/ BuildReturn
    \/ \E i \in DOMAIN returned, ok \in BOOLEAN : PublishEvidencePointer(returned[i], ok)
    \/ HandleNext

SpecDelivery == Init /\ [][NextDelivery]_vars /\ WF_vars(HandleNext)

\* The whole evidence pipeline: builder, object store, topic, consumer
NextEvidence ==
    \/ \E e \in EventIds, s \in EvSessionIds : NewBuilder(e, s)
    \/ AddHarEntry
    \/ \E save_as_file \in BOOLEAN : AddPayload(save_as_file)
    \/ \E tag \in {"sql_injection"} : AddTag(tag)
    \/ \E behavior_profile \in BOOLEAN : BuildAndUpload(behavior_profile)
    \/ \E ok \in BOOLEAN : UploadFile(ok)
    \/ BuildReturn
    \/ \E i \in DOMAIN returned, ok \in BOOLEAN : PublishEvidencePointer(returned[i], ok)
    \/ \E storage_ok \in BOOLEAN : HandleEvidencePointer(storage_ok)

SpecEvidence == Init /\ [][NextEvidence]_vars

\* The session window filling up: one session, one block rule, requests the
\* rule matches and requests it does not
WindowRuleInputs ==
    { r \in RuleInputs : /\ r.rule_id = "r1" /\ r.enabled /\ r.action = "block"
                         /\ r.match = MatchString(<<"a">>) }

WindowInspectInputs ==
    { req \in InspectInputs : /\ req.ml = 0 /\ req.body = <<>> /\ req.headers = <<>> }

NextWindow ==
    \/ \E req \in WindowInspectInputs : InspectCounted(req)
    \/ \E rule \in WindowRuleInputs : CreateRule(rule)
    \/ Tick

SpecWindow == Init /\ [][NextWindow]_vars

\* Inspections of one session interleaved with every mutation of the rule
\* set.  The handlers are coroutines without an await on one event loop
\* (uvicorn.run(app)): each runs to completion before the next starts, so an
\* interleaving of requests is an interleaving of whole handlers.
NextInterleaving ==
    \/ \E req \in WindowInspectInputs : InspectCounted(req)
    \/ \E rule \in WindowRuleInputs : CreateRule(rule)
    \/ \E id \in {"r1"} : DeleteRule(id)
    \/ \E id \in {"r1"}, enabled \in BOOLEAN : ToggleRule(id, enabled)

SpecInterleaving == Init /\ [][NextInterleaving]_vars

\* The decision stage with a behavioral history: one session, one rule at a
\* time (a block rule or a challenge rule), requests it matches or not
DecisionRuleInputs ==
    { r \in RuleInputs :
        /\ r.rule_id = "r1" /\ r.enabled
        /\ \/ r.action = "block" /\ r.match = MatchString(<<"a">>)
           \/ r.action = "challenge" }

DecisionInspectInputs ==
    { req \in InspectInputs : req.body = <<>> /\ req.headers = <<>> }

NextDecision ==
    \/ \E req \in DecisionInspectInputs : InspectDeep(req)
    \/ \E rule \in DecisionRuleInputs : CreateRule(rule)
    \/ \E id \in {"r1"} : DeleteRule(id)

SpecDecision == Init /\ [][NextDecision]_vars

\* The rule store with rules that differ in priority and confidence
RuleStoreBodies ==
    { b \in RuleBodies : b.match = MatchString(<<"a">>) }

RuleStoreInputs ==
    { MkRule(id, b, TRUE, priority, confidence, NoExpiry) :
        id \in RuleIds, b \in RuleStoreBodies,
        priority \in {50, 100}, confidence \in {500, 950} }

RuleStoreInspectInputs ==
    { req \in InspectInputs : req.ml = 0 /\ req.body = <<>> /\ req.headers = <<>> }

NextRules ==
    \/ \E req \in RuleStoreInspectInputs : InspectRequest(req)
    \/ \E rule \in RuleStoreInputs : CreateRule(rule)
    \/ \E id \in RuleIds : DeleteRule(id)
    \/ \E id \in RuleIds, enabled \in BOOLEAN : ToggleRule(id, enabled)

SpecRules == Init /\ [][NextRules]_vars

\* The scoring stages failing under inspection, next to one valid block rule
ScoringRuleInputs ==
    { r \in RuleStoreInputs :
        r.rule_id = "r1" /\ r.action = "block" /\ r.priority = 100 }

ScoringInspectInputs ==
    RuleStoreInspectInputs
    \cup { WithScoringFailure(req, stage) :
             req \in RuleStoreInspectInputs, stage \in ScoringStages }

NextScoring ==
    \/ \E req \in ScoringInspectInputs : InspectRequest(req)
    \/ \E rule \in ScoringRuleInputs : CreateRule(rule)
    \/ \E id \in {"r1"} : DeleteRule(id)
    \/ Tick

SpecScoring == Init /\ [][NextScoring]_vars

\* One block rule that expires at clock value 1 (or never), and a clock
\* that passes the expiry
ExpiringRuleInputs ==
    { MkRule("r1", b, TRUE, 100, 950, expires_at) :
        b \in { c \in RuleStoreBodies : c.action = "block" },
        expires_at \in {NoExpiry, 1} }

NextExpiry ==
    \/ \E req \in RuleStoreInspectInputs : InspectRequest(req)
    \/ \E rule \in ExpiringRuleInputs : CreateRule(rule)
    \/ \E id \in {"r1"} : DeleteRule(id)
    \/ Tick

SpecExpiry == Init /\ [][NextExpiry]_vars

\* The payload simulator behind its endpoint: every way a detonation can fail
NextSimulator ==
    \/ \E p \in PayloadInputs : SimulatePayload(p, None)
    \/ \E f \in FailPoints, x \in BOOLEAN, t \in TeardownFailPoints :
          RunSimulation(f, x, t, "created")
    \/ Tick

SpecSimulator == Init /\ [][NextSimulator]_vars

\* Rule synthesis: simulation results of every verdict, from the sandbox and
\* from rule-propose requests
NextRuleSynthesis ==
    \/ \E p \in PayloadInputs : SimulatePayload(p, None)
    \/ \E f \in {"none", "execute"}, x \in BOOLEAN, o \in PushOutcomes :
          RunSimulation(f, x, "none", o)
    \/ \E p \in PayloadInputs, r \in SimResultInputs, pr \in ProfileInputs :
          ProposeRule(p, r, pr)

SpecRuleSynthesis == Init /\ [][NextRuleSynthesis]_vars

\* Rule proposals for payloads of every attack type, with and without a
\* profile: the end-to-end test's request is one of them
ProposalPayloads ==
    {[type |-> t, confidence |-> c] :
        t \in {"sql_injection", "xss", "command_injection", "path_traversal"},
        c \in {50, 95}}

ProposalSimResults ==
    {[verdict |-> v, severity |-> sv, has_attack_type |-> TRUE] :
        v \in {"exploit_possible", "exploit_improbable"}, sv \in {55, 90}}

NextProposal ==
    \/ \E p \in ProposalPayloads, r \in ProposalSimResults, pr \in ProfileInputs :
          ProposeRule(p, r, pr)
    \/ Tick

SpecProposal == Init /\ [][NextProposal]_vars

\* One simulation job from request to final status, its background task
\* observed step by step
NextJob ==
    \/ \E p \in PayloadInputs : SimulatePayload(p, None)
    \/ TaskStart(1)
    \/ \E f \in FailPoints, x \in BOOLEAN : TaskSimulate(1, f, x)
    \/ \E saved \in BOOLEAN : TaskEmit(1, saved, "created")
    \/ Tick

SpecJob == Init /\ [][NextJob]_vars

\* Simulation jobs: requests accepted at any time, their background tasks
\* running on worker threads, step by step and in any order
NextJobs ==
    \/ \E p \in {q \in PayloadInputs : q.confidence = 100} : SimulateSeveral(p, None)
    \/ \E i \in 1..MaxJobs : TaskStart(i)
    \/ \E i \in 1..MaxJobs, f \in {"none", "execute"}, x \in BOOLEAN :
          TaskSimulate(i, f, x)
    \/ \E i \in 1..MaxJobs, saved \in BOOLEAN : TaskEmit(i, saved, "created")
    \/ Tick

SpecJobs == Init /\ [][NextJobs]_vars

\* Rules proposed and then applied, any number of times, to an inspection
\* engine that is up
NextApply ==
    \/ \E p \in PayloadInputs,
          r \in {q \in SimResultInputs : q.verdict = "exploit_possible"},
          pr \in ProfileInputs :
          ProposeRule(p, r, pr)
    \/ \E id \in 1..(MaxRules + 1), force \in BOOLEAN : ApplyToEngine(id, force)
    \/ Tick

SpecApply == Init /\ [][NextApply]_vars

\* The automatic path: jobs of sessions with and without a stored profile
NextAutoRule ==
    \/ \E sid \in EvSessionIds, p \in ProfileInputs \ {NoProfile} : ProfileSession(sid, p)
    \/ \E p \in PayloadInputs, sid \in EvSessionIds : SimulatePayload(p, sid)
    \/ \E x \in BOOLEAN, o \in PushOutcomes : RunSimulation("none", x, "none", o)
    \/ Tick

SpecAutoRule == Init /\ [][NextAutoRule]_vars

\* The policy orchestrator: rules made from confirmed exploits, by the
\* background task and by rule-propose requests, then decided and pushed
NextSentinel ==
    \/ \E sid \in EvSessionIds, p \in ProfileInputs \ {NoProfile} : ProfileSession(sid, p)
    \/ \E p \in PayloadInputs, sid \in EvSessionIds : SimulatePayload(p, sid)
    \/ \E x \in BOOLEAN, o \in PushOutcomes : RunSimulation("none", x, "none", o)
    \/ \E p \in {q \in PayloadInputs : q.confidence = 100},
          r \in {q \in SimResultInputs : q.verdict = "exploit_possible"},
          pr \in ProfileInputs :
          ProposeRule(p, r, pr)
    \/ \E id \in 1..(MaxRules + 1), force \in BOOLEAN, o \in PushOutcomes :
          ApplyRule(id, force, o)

SpecSentinel == Init /\ [][NextSentinel]_vars

\* ========================================================================
\* Claims
\* ========================================================================
\* What the rule-match stage is documented to do with one rule and a text
RuleMatches(rule, text) ==
    IF rule.match.type = "string" THEN IsSubstr(rule.match.pattern, text)
    ELSE /\ rule.match.type = "regex"
         /\ RegexCompiles(rule.match.pattern)
         /\ RegexSearch(rule.match.pattern, text, rule.match.flags.caseless)

RuleContribution(rule, text) ==
    IF ~RuleMatches(rule, text) THEN 0
    ELSE IF rule.action = "block" THEN 100
    ELSE IF rule.match.type = "string" THEN 80 ELSE 85

EnabledRules(rules) == SelectSeq(rules, LAMBDA r : r.enabled)

\* C1: once an enabled block rule is held, every inspect of a request whose
\* combined text matches the rule's pattern returns action block (for as long
\* as the rule is neither deleted nor disabled).
C1_BlockRuleEnforced ==
    [][\A req \in InspectInputs :
          (/\ InspectRequest(req)
           /\ \E i \in 1..Len(active_rules) :
                 /\ active_rules[i].enabled
                 /\ active_rules[i].action = "block"
                 /\ RuleMatches(active_rules[i], CombinedText(req)))
          => (gk_resp'.status = 200 /\ gk_resp'.action = "block")]_vars

\* C2: when inspect returns tag_poi for a session a pin for that session
\* exists, and route calls of that session and client IP go to the decoy
\* while the pin is neither expired nor removed.
C2_TagPoiPinsSession ==
    [][\A req \in PlatformInspectInputs :
          (InspectRequest(req) /\ gk_resp'.action = "tag_poi")
          => \E i \in 1..Len(pinned_sessions') :
                /\ pinned_sessions'[i].session_id = req.session_id
                /\ pinned_sessions'[i].fingerprint =
                       GenerateFingerprint(req.session_id, req.client_ip)]_vars

\* C3: a rule that is disabled at the time of an inspect call contributes
\* nothing to that call: the rule score and the blocking rule (and whether
\* the call fails) are those of the enabled rules alone, the score is 0 or
\* the contribution of an enabled matching rule, and the blocking rule is an
\* enabled matching block rule.
C3_DisabledRuleInert ==
    [][\A req \in InspectInputs :
          InspectRequest(req) =>
            LET chk == CheckWafRules(EnabledRules(active_rules), req)
                text == CombinedText(req)
            IN /\ (gk_resp'.status = 500) = chk.raised
               /\ gk_resp'.blocked_by = chk.blocked_by
               /\ gk_resp'.status = 200 => gk_resp'.modsecurity = chk.score
               /\ \/ gk_resp'.modsecurity = 0
                  \/ \E i \in 1..Len(active_rules) :
                        /\ active_rules[i].enabled
                        /\ RuleContribution(active_rules[i], text) = gk_resp'.modsecurity
               /\ gk_resp'.blocked_by # None =>
                    \E i \in 1..Len(active_rules) :
                        /\ active_rules[i].enabled
                        /\ active_rules[i].rule_id = gk_resp'.blocked_by
                        /\ RuleContribution(active_rules[i], text) = 100]_vars

\* C3 witness: an inspect was answered without a block and with rule score 0
\* although a disabled block rule matches the inspected text.
C3_Witness ==
    /\ gk_resp.op = "inspect"
    /\ gk_resp.status = 200
    /\ gk_resp.action # "block"
    /\ gk_resp.modsecurity = 0
    /\ \E i \in 1..Len(active_rules) :
          /\ ~active_rules[i].enabled
          /\ RuleContribution(active_rules[i], CombinedText(gk_req)) = 100

\* ---- Session router ----------------------------------------------------
LivePins == SelectSeq(pinned_sessions, LAMBDA p : ~(now > p.pinned_until))

HasPin(pins, fp) == \E i \in 1..Len(pins) : pins[i].fingerprint = fp

\* C4: once now is later than a pin's pinned_until, a route call for the
\* pin's fingerprint returns production and removes the pin, and a
\* list-sessions call returns no pin whose pinned_until has passed (only pins
\* still held and live).
C4_ExpiredPinEvicted ==
    [][/\ \A req \in RouteInputs :
             (/\ GetRoute(req)
              /\ \E i \in 1..Len(pinned_sessions) :
                    /\ pinned_sessions[i].fingerprint = ExtractFingerprint(req)
                    /\ now > pinned_sessions[i].pinned_until)
             => (/\ sw_resp'.target = "production"
                 /\ ~HasPin(pinned_sessions', ExtractFingerprint(req)))
       /\ ListSessions =>
             /\ \A i \in 1..Len(sw_resp'.sessions) :
                   /\ ~(now > sw_resp'.sessions[i].pinned_until)
                   /\ HasPin(pinned_sessions, sw_resp'.sessions[i].fingerprint)
             /\ \A i \in 1..Len(pinned_sessions') :
                   ~(now > pinned_sessions'[i].pinned_until)]_vars

\* C4 witness: a route call found the pin of its fingerprint expired, answered
\* production and removed it.
C4_Witness ==
    /\ sw_resp.op = "route"
    /\ sw_resp.target = "production"
    /\ sw_resp.printed = ExtractFingerprint(sw_req)
    /\ ~HasPin(pinned_sessions, ExtractFingerprint(sw_req))
    /\ now > 1

\* A route request carries session id sid: explicitly, or as the session_id
\* cookie when no explicit id is given
CarriesSession(req, sid) ==
    \/ req.session_id = sid
    \/ req.session_id = None /\ req.cookie_session = sid

C6_ExpiredPinIndistinguishable ==
    [][/\ \A req \in RouteInputs :
             GetRoute(req) =>
                /\ (sw_resp'.target = "labyrinth") = HasPin(LivePins, ExtractFingerprint(req))
                /\ ~HasPin(pinned_sessions', ExtractFingerprint(req))
                   \/ HasPin(LivePins, ExtractFingerprint(req))
       /\ ListSessions =>
             (sw_resp'.sessions = LivePins /\ pinned_sessions' = LivePins)
       /\ \A sid \in SwSessionIds :
             GetSession(sid) =>
                LET live == SelectSeq(LivePins, LAMBDA p : p.session_id = sid)
                IN /\ sw_resp'.status = (IF live # <<>> THEN 200 ELSE 404)
                   /\ sw_resp'.sessions = (IF live # <<>> THEN <<Head(live)>> ELSE <<>>)
                   /\ \A i \in 1..Len(pinned_sessions') :
                         pinned_sessions'[i].session_id = sid
                         => ~(now > pinned_sessions'[i].pinned_until)
       /\ \A sid \in SwSessionIds :
             UnpinSession(sid) =>
                sw_resp'.status =
                   (IF \E i \in 1..Len(LivePins) : LivePins[i].session_id = sid
                    THEN 200 ELSE 404)
       /\ GetStats =>
             /\ sw_resp'.total_pinned = Len(LivePins)
             /\ pinned_sessions' = LivePins]_vars

\* ------------------------------------------------------------------------
\* Evidence packages: checksum round trip, pointer ordering, idempotency
\* ------------------------------------------------------------------------
\* The objects stored under the event id of a pointer
PackageKeys(pointer) == { k \in DOMAIN bucket : k[1] = pointer.event_id }

\* The store holds exactly what the build behind the pointer uploaded
PackageIntact(pointer) ==
    /\ builder.pc = "done"
    /\ builder.capture_id = pointer.capture_id
    /\ { ObjectName(k[1], k[2]) : k \in PackageKeys(pointer) }
         = { a.object : a \in Range(builder.uploaded_artifacts) }
    /\ \A k \in PackageKeys(pointer) :
         \E a \in Range(builder.uploaded_artifacts) :
            a.object = ObjectName(k[1], k[2]) /\ a.checksum = Sha256(bucket[k])

\* C7: whenever the consumer retrieves a package that was built and uploaded
\* by the Evidence Builder and is unmodified in the store, the recomputed
\* package checksum equals the pointer's checksum: retrieve returns valid.
C7_UnmodifiedPackageValid ==
    [][ ( /\ consumer_offset' = consumer_offset + 1
          /\ evidence'.status = "ok"
          /\ PackageIntact(topic[consumer_offset + 1].value) )
        => evidence'.valid ]_vars

\* C8: a pointer is returned (and can thus be published) only when every
\* file of the workspace has been uploaded; a build that failed on an upload
\* has produced no pointer, and nothing is on the topic that was not
\* returned by a completed build.
C8_PointerOnlyAfterAllUploads ==
    /\ [][ returned' # returned =>
             /\ builder.pc = "uploading"
             /\ \A path \in DOMAIN builder.workspace :
                  /\ <<builder.event_id, path>> \in DOMAIN bucket
                  /\ bucket[<<builder.event_id, path>>] = builder.workspace[path]
                  /\ \E a \in Range(builder.uploaded_artifacts) :
                        a.object = ObjectName(builder.event_id, path) ]_vars
    /\ [](builder.pc = "failed" =>
            /\ \A p \in Range(returned) : p.capture_id # builder.capture_id
            /\ \A m \in Range(topic) : m.value.capture_id # builder.capture_id)
    /\ [](\A m \in Range(topic) : m.value \in Range(returned))

\* A build aborted by a failed upload: objects were stored, no pointer exists
C8_Witness ==
    /\ builder.pc = "failed"
    /\ DOMAIN bucket # {}
    /\ returned = <<>>
    /\ topic = <<>>

C10_RepeatedPointerSkipped ==
    [][ ( /\ consumer_offset' = consumer_offset + 1
          /\ \E c \in Range(profiler_calls) :
                c.event_id = topic[consumer_offset + 1].key )
        => /\ profiler_calls' = profiler_calls
           /\ attacker_profiles' = attacker_profiles ]_vars

\* ------------------------------------------------------------------------
\* Consumer offsets
\* ------------------------------------------------------------------------
\* The consumer process comes back up
ConsumerRestarts == ~consumer_running /\ consumer_running'

\* C11 as stated: a pointer whose handling was interrupted by the death of
\* the consumer is delivered again: after the restart the position is still
\* before it.
C11_InterruptedPointerRedelivered ==
    [][ (ConsumerRestarts /\ crashed_in # 0) => consumer_offset' < crashed_in ]_vars

\* C11 amended: the group's offset changes only by a commit of the position
\* made between two handler calls of a live consumer, never by the death of
\* the process inside a handler; so a pointer whose handling was interrupted
\* is delivered again provided the group has a committed offset.  Without
\* one the restart begins at the end of the topic.
C11_InterruptedPointerRedeliveredIfCommitted ==
    /\ [][ committed' # committed =>
             /\ consumer_running /\ consumer_running'
             /\ consumer_offset' = consumer_offset
             /\ committed' = [known |-> TRUE, offset |-> consumer_offset] ]_vars
    /\ [][ (ConsumerRestarts /\ crashed_in # 0 /\ committed.known)
             => consumer_offset' < crashed_in ]_vars
    /\ [][ (ConsumerRestarts /\ ~committed.known) => consumer_offset' = Len(topic) ]_vars

\* A pointer interrupted by a crash, delivered again after the restart and
\* handled
C11_Witness ==
    /\ crashes > 0
    /\ consumer_running
    /\ committed.known
    /\ crashed_in # 0
    /\ crashed_in \in handled
    /\ consumer_offset >= crashed_in

\* ------------------------------------------------------------------------
\* C12.  Whenever the verdict of the simulation result is not exploit_possible
\* (exploit_improbable, error, or missing), no rule is produced: the
\* rule-propose request is refused and names no rule, the background task
\* produces no rule, the generated-rule map is left as it was and nothing is
\* pushed to the inspection engine.
\* ------------------------------------------------------------------------
RuleProducingOps == {"propose_rule", "run_simulation", "auto_generate_rule"}

C12_NoRuleUnlessExploitPossible ==
    [][ (/\ sn_resp'.op \in RuleProducingOps
         /\ sn_resp'.verdict # "exploit_possible")
        => /\ generated_rules' = generated_rules
           /\ pushes' = pushes
           /\ sn_resp'.rule_id = 0
           /\ (sn_resp'.op = "propose_rule" => sn_resp'.status = 400)
           /\ \A i \in 1..Len(sn_events') :
                  sn_events'[i].type = "rule_generated" =>
                      i <= Len(sn_events) /\ sn_events[i] = sn_events'[i] ]_vars

\* a rule-propose request whose simulation result has no verdict was refused
\* while the map already held a rule made from a confirmed exploit
C12_Witness ==
    /\ sn_resp.op = "propose_rule"
    /\ sn_resp.verdict = None
    /\ sn_resp.status = 400
    /\ generated_rules # <<>>

\* ------------------------------------------------------------------------
\* C13.  For every rule confidence c (in thousandths; checked on the values
\* around each threshold) and force = false the
\* policy orchestrator decides auto_applied if c >= 0.90, pending_review if
\* 0.70 <= c < 0.90 and logged_only if c < 0.70; with force = true it
\* decides auto_applied for every c.  This holds of the function on each of
\* those confidences, and of every decision the rule-apply endpoint answered with
\* and the background task took (which never forces).
\* ------------------------------------------------------------------------
\* confidences on both sides of, and on, each threshold
Confidences == {0, 350, 699, 700, 701, 800, 899, 900, 901, 1000}

RuleOfConfidence(c) == [NoRule EXCEPT !.rule_id = 1, !.confidence = c]

C13_OrchestratorThresholds ==
    /\ \A c \in Confidences :
          /\ OrchestratePolicy(RuleOfConfidence(c), TRUE) = "auto_applied"
          /\ c >= 900 => OrchestratePolicy(RuleOfConfidence(c), FALSE) = "auto_applied"
          /\ (c >= 700 /\ c < 900) =>
                 OrchestratePolicy(RuleOfConfidence(c), FALSE) = "pending_review"
          /\ c < 700 => OrchestratePolicy(RuleOfConfidence(c), FALSE) = "logged_only"
    /\ (sn_resp.op = "apply_rule" /\ sn_resp.status = 200) =>
          LET c == generated_rules[sn_resp.rule_id].confidence
          IN /\ sn_resp.decision \in {"auto_applied", "pending_review", "logged_only"}
             /\ c >= 900 => sn_resp.decision = "auto_applied"
             /\ sn_resp.decision = "pending_review" => (c >= 700 /\ c < 900)
             /\ sn_resp.decision = "logged_only" => c < 700
    /\ (sn_resp.op = "auto_generate_rule" /\ sn_resp.rule_id # 0) =>
          LET c == generated_rules[sn_resp.rule_id].confidence
          IN sn_resp.decision = (IF c >= 900 THEN "auto_applied"
                                 ELSE IF c >= 700 THEN "pending_review"
                                 ELSE "logged_only")

\* the rule-apply endpoint answered pending_review for a rule whose
\* confidence is exactly 0.70
C13_Witness ==
    /\ sn_resp.op = "apply_rule"
    /\ sn_resp.status = 200
    /\ sn_resp.decision = "pending_review"
    /\ generated_rules[sn_resp.rule_id].confidence = 700

\* ------------------------------------------------------------------------
\* C14.  A rule is pushed to the inspection engine only when its policy
\* decision is auto_applied: a pending_review rule is stored and its
\* rule-generated event is emitted but it is not pushed, and a logged_only
\* rule is only stored (no event emitted, no push).  Stated of every step in
\* which the rule-apply endpoint or the background task took a decision.
\* ------------------------------------------------------------------------
DecisionTaken ==
    \/ sn_resp'.op = "apply_rule" /\ sn_resp'.status = 200
    \/ sn_resp'.op = "auto_generate_rule" /\ sn_resp'.rule_id # 0

\* the step wrote a rule-generated event for the rule it decided on
RuleEventEmitted ==
    /\ Len(sn_events') > Len(sn_events)
    /\ \E i \in (Len(sn_events) + 1)..Len(sn_events') :
          /\ sn_events'[i].type = "rule_generated"
          /\ sn_events'[i].rule_id = sn_resp'.rule_id

C14_PushOnlyWhenAutoApplied ==
    [][ DecisionTaken =>
          /\ sn_resp'.rule_id \in 1..Len(generated_rules')
          /\ pushes' # pushes => sn_resp'.decision = "auto_applied"
          /\ sn_resp'.decision = "pending_review" =>
                 (pushes' = pushes /\ RuleEventEmitted)
          /\ sn_resp'.decision = "logged_only" =>
                 (pushes' = pushes /\ ~RuleEventEmitted) ]_vars

\* ------------------------------------------------------------------------
\* C15.  When the push of an auto-apply rule to the inspection engine fails
\* because the inspector is unreachable, the orchestrator does not retry
\* the push (the step sends exactly one request) and the rule's outcome is
\* recorded as pending_review, never as auto_applied: the step writes a
\* rule-generated event with action pending_review for the rule and none
\* with action auto_applied, and does not answer auto_applied.
\* ------------------------------------------------------------------------
PushFailed ==
    /\ pushes' # pushes
    /\ pushes'[Len(pushes')].outcome = "unreachable"

NewRuleEvents ==
    {sn_events'[i] : i \in (Len(sn_events) + 1)..Len(sn_events')}

C15_FailedPushRecordedPendingReview ==
    [][ PushFailed =>
          LET rule_id == pushes'[Len(pushes')].rule_id
          IN /\ pushes' = Append(pushes, [rule_id |-> rule_id,
                                          outcome |-> "unreachable"])
             /\ [type |-> "rule_generated", rule_id |-> rule_id,
                 action |-> "pending_review"] \in NewRuleEvents
             /\ [type |-> "rule_generated", rule_id |-> rule_id,
                 action |-> "auto_applied"] \notin NewRuleEvents
             /\ sn_resp'.decision # "auto_applied" ]_vars

\* ------------------------------------------------------------------------
\* C16.  Every sandbox resource (isolated network and container) provisioned
\* by a simulate call is destroyed by the time simulate returns, whether
\* the detonation succeeded or failed at any step, part-way through
\* provisioning or teardown included: between simulate calls no sandbox
\* network and no sandbox container exists on the Docker host.
\* ------------------------------------------------------------------------
C16_SandboxDestroyedOnReturn ==
    /\ docker_networks = {}
    /\ docker_containers = {}

\* ------------------------------------------------------------------------
\* C17.  simulate never propagates an exception: whichever step fails
\* (provisioning, shadow-app deployment, payload execution, evidence
\* collection), and whatever happens during teardown, the call returns, and
\* whenever a step failed the result has verdict error and severity 0.
\* ------------------------------------------------------------------------
C17_SimulateNeverRaises ==
    sim_return.run > 0 =>
        /\ ~sim_return.raised
        /\ sim_return.fail_at # "none" =>
               (sim_return.verdict = "error" /\ sim_return.severity = 0)
        /\ sim_return.fail_at = "none" =>
               sim_return.verdict \in {"exploit_possible", "exploit_improbable"}

\* a detonation failed while collecting evidence, its teardown failed as
\* well, and the call still returned an error result
C17_Witness ==
    /\ sim_return.run > 0
    /\ sim_return.fail_at = "collect"
    /\ sim_return.teardown_fail = "stop"
    /\ ~sim_return.raised
    /\ sim_return.verdict = "error"

\* ------------------------------------------------------------------------
\* C18.  For every session s, after N >= 20 inspect calls for s (whatever
\* their decisions), the session window of s holds exactly 20 entries with
\* non-decreasing timestamps; the window never holds more than 20 entries.
\* ------------------------------------------------------------------------
TimestampsNonDecreasing(window) ==
    \A i \in 1..(Len(window) - 1) : window[i].timestamp <= window[i + 1].timestamp

DecidedResponse ==
    /\ gk_resp.op = "inspect"
    /\ gk_resp.status = 200
    /\ gk_resp.blocked_by = None

C19_DecisionOutcomes ==
    DecidedResponse =>
        LET high == gk_resp.combined.num >= 75 * gk_resp.combined.den
            ml_high == gk_resp.ml_anomaly >= 75
        IN /\ gk_resp.action \in {"tag_poi", "allow"}
           /\ high =>
                 /\ gk_resp.action = "tag_poi"
                 /\ SubSeq(gk_resp.tags, 1, 2) = <<"poi", "high_combined_score">>
           /\ (~high /\ ml_high) =>
                 /\ gk_resp.action = "tag_poi"
                 /\ gk_resp.tags = <<"poi", "ml_high_confidence">>
           /\ (~high /\ ~ml_high) =>
                 /\ gk_resp.action = "allow"
                 /\ gk_resp.tags = <<"normal">>

\* a request that matched a challenge rule was answered tag_poi because its
\* combined score reached 75
C19_Witness ==
    /\ DecidedResponse
    /\ gk_resp.combined.num >= 75 * gk_resp.combined.den
    /\ gk_resp.modsecurity = 85
    /\ gk_resp.action = "tag_poi"

\* ------------------------------------------------------------------------
\* C20.  inspect emits a POI event and returns a non-null event_id if and
\* only if the action is tag_poi: a tag_poi answer carries the id of the one
\* event the call wrote, and allow and block answers write no event and
\* carry no event_id.
\* ------------------------------------------------------------------------
InspectAnswered ==
    /\ gk_resp'.op = "inspect"
    /\ gk_resp'.status = 200
    /\ <<gk_req, gk_resp, session_history, poi_events>>'
          # <<gk_req, gk_resp, session_history, poi_events>>

C20_PoiEventIffTagPoi ==
    [][ InspectAnswered =>
          IF gk_resp'.action = "tag_poi"
          THEN /\ gk_resp'.event_id # 0
               /\ Len(poi_events') = Len(poi_events) + 1
               /\ SubSeq(poi_events', 1, Len(poi_events)) = poi_events
               /\ poi_events'[Len(poi_events')].event_id = gk_resp'.event_id
               /\ poi_events'[Len(poi_events')].session_id = gk_req'.session_id
          ELSE /\ gk_resp'.action \in {"allow", "block"}
               /\ gk_resp'.event_id = 0
               /\ poi_events' = poi_events ]_vars

\* after an event was written, a request was blocked by a rule: its answer
\* carries no event id
C20_Witness ==
    /\ gk_resp.op = "inspect"
    /\ gk_resp.action = "block"
    /\ gk_resp.event_id = 0
    /\ Len(poi_events) = 1

\* ------------------------------------------------------------------------
\* C21: creating a rule whose id is already stored is answered 409 (the
\* request carrying a rule) and the rule set is left as it was; and no rule-management step changes the
\* pattern, action, priority or confidence of a rule that stays stored (only
\* enabled may change).
\* ------------------------------------------------------------------------
\* The step answered a create-rule request (every other operation of the
\* engine writes its own op into the response)
CreateAnswered ==
    /\ gk_resp'.op = "create_rule"
    /\ gk_resp' # gk_resp \/ active_rules' # active_rules

\* The request body was a rule (a body that is not one is answered 400 before
\* the handler looks at the id)
RuleParsed == gk_resp'.status # 400

StoredBefore(id) == \E i \in 1..Len(active_rules) : active_rules[i].rule_id = id

C21_DuplicateRejectedNoReplace ==
    [][ /\ (CreateAnswered /\ StoredBefore(gk_resp'.rule_id))
           => /\ active_rules' = active_rules
              /\ RuleParsed => gk_resp'.status = 409
        /\ \A i \in 1..Len(active_rules) : \A j \in 1..Len(active_rules') :
              active_rules[i].rule_id = active_rules'[j].rule_id
              => /\ active_rules'[j].match = active_rules[i].match
                 /\ active_rules'[j].action = active_rules[i].action
                 /\ active_rules'[j].priority = active_rules[i].priority
                 /\ active_rules'[j].confidence = active_rules[i].confidence ]_vars

\* A create was answered 409 while the stored rule of that id differs from
\* any rule a second create could carry in priority and enabled flag
C21_Witness ==
    /\ gk_resp.op = "create_rule" /\ gk_resp.status = 409
    /\ \E i \in 1..Len(active_rules) :
          /\ active_rules[i].rule_id = gk_resp.rule_id
          /\ active_rules[i].priority = 50
          /\ ~active_rules[i].enabled
    /\ Len(active_rules) = 2

\* ------------------------------------------------------------------------
\* C22: once a rule's expires_at has passed, an inspection leaves no such
\* rule in the engine's rule set and attributes no block to it.
\* ------------------------------------------------------------------------
HasPassed(rule, t) == rule.expires_at # NoExpiry /\ rule.expires_at < t

\* The step answered an inspect request
InspectStep == gk_resp'.op = "inspect" /\ now' = now

C22_ExpiredRuleDeleted ==
    [][ InspectStep =>
          /\ \A i \in 1..Len(active_rules') : ~HasPassed(active_rules'[i], now)
          /\ \A i \in 1..Len(active_rules) :
                HasPassed(active_rules[i], now)
                => gk_resp'.blocked_by # active_rules[i].rule_id ]_vars

\* ------------------------------------------------------------------------
\* C23: after any sequence of rule-create, toggle and delete operations,
\* every stored rule whose action is block has confidence >= 0.75.
\* ------------------------------------------------------------------------
C23_BlockRulesConfident ==
    \A i \in 1..Len(active_rules) :
       active_rules[i].action = "block"
       => active_rules[i].confidence >= BlockMinConfidence

\* A push was refused as a bad request while a block rule is stored and
\* toggled off, next to a low-confidence tag rule
C23_Witness ==
    /\ gk_resp.op = "create_rule" /\ gk_resp.status = 400
    /\ \E i \in 1..Len(active_rules) :
          active_rules[i].action = "block" /\ ~active_rules[i].enabled
    /\ \E i \in 1..Len(active_rules) :
          active_rules[i].action = "tag" /\ active_rules[i].confidence = 500

\* ------------------------------------------------------------------------
\* C24: when feature extraction, anomaly scoring or behavioral scoring
\* fails, inspect still answers with a decision (never an error), the
\* anomaly score reported as 0; a decision made by a block rule is unaffected.
\* ------------------------------------------------------------------------
C24_ScoringFailureNotSurfaced ==
    (gk_resp.op = "inspect" /\ gk_req.raises # "none")
    => /\ gk_resp.status = 200
       /\ gk_resp.action \in {"block", "challenge", "tag_poi", "allow"}
       /\ gk_req.raises \in {"extract", "anomaly"} => gk_resp.ml_anomaly = 0

\* ------------------------------------------------------------------------
\* C25: a rule whose regex does not compile is inert: an inspection never
\* fails because of it, and its rule stage gives what the stored rules
\* without the non-compiling ones give.
\* ------------------------------------------------------------------------
CompilingRules ==
    SelectSeq(active_rules,
              LAMBDA r : r.match.type = "regex" => RegexCompiles(r.match.pattern))

C25_BadRegexRuleInert ==
    (gk_resp.op = "inspect" /\ gk_req.raises = "none")
    => /\ gk_resp.status = 200
       /\ gk_resp.blocked_by = CheckWafRules(CompilingRules, gk_req).blocked_by
       /\ gk_resp.modsecurity = CheckWafRules(CompilingRules, gk_req).score

\* ------------------------------------------------------------------------
\* C26: when several enabled block rules match a request, the block
\* (rule score 100, ml score 0) is attributed to the matching rule with the
\* lowest priority value, whatever the order the rules were created in.
\* ------------------------------------------------------------------------
\* The rule is enabled, blocks, and its pattern occurs in the request's text
BlocksRequest(rule, req) ==
    /\ rule.enabled /\ rule.action = "block"
    /\ IF rule.match.type = "string"
       THEN IsSubstr(rule.match.pattern, CombinedText(req))
       ELSE /\ RegexCompiles(rule.match.pattern)
            /\ RegexSearch(rule.match.pattern, CombinedText(req),
                           rule.match.flags.caseless)

C26_BlockAttributedByPriority ==
    (gk_resp.op = "inspect" /\ gk_resp.status = 200 /\
     \E i \in 1..Len(active_rules) : BlocksRequest(active_rules[i], gk_req))
    => /\ gk_resp.action = "block"
       /\ gk_resp.modsecurity = 100 /\ gk_resp.ml_anomaly = 0
       /\ \E i \in 1..Len(active_rules) :
             /\ active_rules[i].rule_id = gk_resp.blocked_by
             /\ BlocksRequest(active_rules[i], gk_req)
             /\ \A j \in 1..Len(active_rules) :
                   BlocksRequest(active_rules[j], gk_req)
                   => active_rules[i].priority <= active_rules[j].priority

\* ------------------------------------------------------------------------
\* C27: unpin(session_id) removes every pin of that session (whatever the
\* fingerprint or client address it was stored under), leaves the pins of
\* every other session as they were, and answers not-found, the pin map
\* unchanged, exactly when no pin of the session is stored.
\* ------------------------------------------------------------------------
\* The step answered an unpin request
UnpinStep == sw_resp'.op = "unpin" /\ now' = now

PinsOf(pins, sid) == { i \in 1..Len(pins) : pins[i].session_id = sid }

C27_UnpinRemovesAllOfSession ==
    [][ UnpinStep =>
          LET sid == sw_resp'.session_id IN
          /\ PinsOf(pinned_sessions', sid) = {}
          /\ \A i \in 1..Len(pinned_sessions) :
                pinned_sessions[i].session_id # sid
                => \E j \in 1..Len(pinned_sessions') :
                      pinned_sessions'[j] = pinned_sessions[i]
          /\ Len(pinned_sessions') =
                Len(pinned_sessions) - Cardinality(PinsOf(pinned_sessions, sid))
          /\ sw_resp'.status = IF PinsOf(pinned_sessions, sid) = {} THEN 404 ELSE 200
          /\ sw_resp'.status = 404 => pinned_sessions' = pinned_sessions ]_vars

\* Three pins were made and an unpin of session s1 was answered 200, leaving
\* only the other session's pin
C27_Witness ==
    /\ sw_resp.op = "unpin" /\ sw_resp.status = 200 /\ sw_resp.session_id = "s1"
    /\ sw_events = MaxUnpinPins
    /\ Len(pinned_sessions) = 1
    /\ pinned_sessions[1].session_id = ""

\* ------------------------------------------------------------------------
\* C28: when the checksum recomputed over the downloaded artifacts differs
\* from the pointer's, retrieve does not fail: it returns the parsed
\* evidence with valid = false, and the consumer passes that evidence to the
\* handler (which profiles the session when the evidence is complete).
\* ------------------------------------------------------------------------
\* The step handled the next pointer of the topic
PointerHandled == consumer_offset' = consumer_offset + 1

\* The checksum over the stored artifacts of the pointer's event, in the
\* order the store lists them, differs from the pointer's
ChecksumDiffers(pointer) ==
    LET names == ListObjects(bucket, pointer.event_id)
    IN Sha256([i \in DOMAIN names |->
                  Sha256(bucket[<<pointer.event_id, names[i]>>])]) # pointer.checksum

StoredOr(event_id, path) ==
    IF <<event_id, path>> \in DOMAIN bucket
    THEN bucket[<<event_id, path>>] ELSE NoContent

C28_MismatchReportedNotRaised ==
    [][ (PointerHandled /\ ChecksumDiffers(topic[consumer_offset'].value))
        => LET pointer == topic[consumer_offset'].value IN
           /\ evidence'.status = "ok"
           /\ evidence'.event_id = pointer.event_id
           /\ ~evidence'.valid
           /\ evidence'.metadata = StoredOr(pointer.event_id, "metadata.json")
           /\ evidence'.har_log = StoredOr(pointer.event_id, "session.har")
           /\ (evidence'.metadata # NoContent /\ evidence'.har_log # NoContent)
              => /\ Len(profiler_calls') = Len(profiler_calls) + 1
                 /\ profiler_calls'[Len(profiler_calls')].event_id = pointer.event_id
                 /\ profiler_calls'[Len(profiler_calls')].session_id
                       = pointer.session_id ]_vars

\* A complete package was retrieved with valid = false and the handler
\* profiled its session
C28_Witness ==
    /\ evidence.status = "ok" /\ ~evidence.valid
    /\ evidence.metadata # NoContent /\ evidence.har_log # NoContent
    /\ profiler_calls # <<>>
    /\ profiler_calls[Len(profiler_calls)].event_id = evidence.event_id

\* ------------------------------------------------------------------------
\* C29: after stop, the subscriber loop handles no further pointer (the
\* handling of a message is one step here, so a step taken after stop is
\* the handling of a further message).
\* ------------------------------------------------------------------------
C29_NoHandlingAfterStop ==
    [][ ~running => /\ consumer_offset' = consumer_offset
                    /\ handled' = handled
                    /\ evidence' = evidence
                    /\ profiler_calls' = profiler_calls ]_vars

Get(d, k, default) == IF k \in DOMAIN d THEN d[k] ELSE default

Flag(b) == IF b THEN 1 ELSE 0

CountChar(t, c) == Cardinality({i \in 1..Len(t) : t[i] = c})

Combined(request) == request.url \o <<" ">> \o request.body

\* A basic group that names its parameter count as the content group does
BasicFeaturesSharedName(request) ==
    ("request_length" :> Len(request.body))
    @@ ("url_length" :> Len(request.url))
    @@ ("header_count" :> Cardinality(DOMAIN request.headers))
    @@ ("url_params_length" :> Cardinality(DOMAIN request.query_params))
    @@ ("method_is_post" :> Flag(request.method = "POST"))
    @@ ("method_is_get" :> Flag(request.method = "GET"))
    @@ ("method_is_put" :> Flag(request.method = "PUT"))
    @@ ("method_is_delete" :> Flag(request.method = "DELETE"))
    @@ ("has_body" :> Flag(Len(request.body) > 0))
    @@ ("has_query_params" :> Flag(Cardinality(DOMAIN request.query_params) > 0))

\* _extract_basic_features
BasicFeatures(request) ==
    ("request_length" :> Len(request.body))
    @@ ("url_length" :> Len(request.url))
    @@ ("header_count" :> Cardinality(DOMAIN request.headers))
    @@ ("param_count" :> Cardinality(DOMAIN request.query_params))
    @@ ("method_is_post" :> Flag(request.method = "POST"))
    @@ ("method_is_get" :> Flag(request.method = "GET"))
    @@ ("method_is_put" :> Flag(request.method = "PUT"))
    @@ ("method_is_delete" :> Flag(request.method = "DELETE"))
    @@ ("has_body" :> Flag(Len(request.body) > 0))
    @@ ("has_query_params" :> Flag(Cardinality(DOMAIN request.query_params) > 0))

\* _extract_content_features
ContentFeatures(request) ==
    LET combined == Combined(request)
        body == request.body
    IN  ("digit_ratio" :> combined)
        @@ ("alpha_ratio" :> combined)
        @@ ("special_char_ratio" :> combined)
        @@ ("uppercase_ratio" :> combined)
        @@ ("lowercase_ratio" :> combined)
        @@ ("space_ratio" :> combined)
        @@ ("null_byte_count" :> combined)
        @@ ("newline_count" :> CountChar(combined, "\n"))
        @@ ("url_depth" :> CountChar(request.url, "/"))
        @@ ("url_params_length" :> Cardinality(DOMAIN request.query_params))
        @@ ("body_lines" :> IF body # <<>> THEN CountChar(body, "\n") + 1 ELSE 0)
        @@ ("avg_word_length" :> combined)
        @@ ("max_word_length" :> combined)
        @@ ("unique_char_count" :> Cardinality(Range(combined)))
        @@ ("repeated_char_ratio" :> combined)
        @@ ("hex_ratio" :> combined)
        @@ ("base64_ratio" :> combined)
        @@ ("url_encoded_ratio" :> combined)
        @@ ("json_like" :> Flag("{" \in Range(body) /\ "}" \in Range(body)))
        @@ ("xml_like" :> Flag("<" \in Range(body) /\ ">" \in Range(body)))

\* _extract_pattern_features
PatternFeatures(request) ==
    LET combined == Combined(request)
    IN  ("sql_keyword_count" :> combined)
        @@ ("xss_pattern_count" :> combined)
        @@ ("command_pattern_count" :> combined)
        @@ ("path_traversal_count" :> combined)
        @@ ("has_union" :> combined)
        @@ ("has_select" :> combined)
        @@ ("has_script_tag" :> combined)
        @@ ("has_iframe" :> combined)
        @@ ("has_javascript" :> combined)
        @@ ("has_eval" :> combined)
        @@ ("has_exec" :> combined)
        @@ ("sql_comment_count" :> combined)
        @@ ("quote_count" :> CountChar(combined, "'") + CountChar(combined, "\""))
        @@ ("semicolon_count" :> CountChar(combined, ";"))
        @@ ("equals_count" :> CountChar(combined, "="))
        @@ ("angle_bracket_count" :> CountChar(combined, "<") + CountChar(combined, ">"))
        @@ ("parenthesis_count" :> CountChar(combined, "(") + CountChar(combined, ")"))
        @@ ("pipe_count" :> CountChar(combined, "|"))
        @@ ("ampersand_count" :> CountChar(combined, "&"))
        @@ ("percent_count" :> CountChar(combined, "%"))
        @@ ("dollar_count" :> CountChar(combined, "$"))
        @@ ("backslash_count" :> CountChar(combined, "\\"))
        @@ ("dot_dot_slash" :> combined)
        @@ ("double_encoding" :> Flag(IsSubstr(<<"%", "2", "5">>, combined)))
        @@ ("ldap_injection" :> Flag(\/ IsSubstr(<<"*", "(">>, combined)
                                      \/ IsSubstr(<<"*", ")">>, combined)
                                      \/ IsSubstr(<<"(", "|">>, combined)))

\* _extract_entropy_features
EntropyFeatures(request) ==
    LET url == request.url
        body == request.body
    IN  ("entropy_url" :> url)
        @@ ("entropy_body" :> body)
        @@ ("entropy_combined" :> url \o body)
        @@ ("url_entropy_per_char" :> url)
        @@ ("body_entropy_per_char" :> body)
        @@ ("url_randomness" :> url)
        @@ ("body_randomness" :> body)
        @@ ("longest_alphanum_sequence" :> url \o body)
        @@ ("longest_repeated_char" :> url \o body)
        @@ ("consonant_ratio" :> url \o body)
        @@ ("vowel_ratio" :> url \o body)
        @@ ("digit_sequence_max" :> url \o body)
        @@ ("has_long_hex_string" :> url \o body)
        @@ ("has_long_base64_string" :> url \o body)
        @@ ("compression_ratio" :> url \o body)

\* _extract_behavioral_features: "In production, these would come from
\* session history.  For now, return default values": the request's metadata
BehavioralFeatures(request) ==
    LET metadata == request.metadata
        headers == request.headers
    IN  ("requests_per_second" :> Get(metadata, "req_per_sec", 0))
        @@ ("requests_in_session" :> Get(metadata, "req_count", 1))
        @@ ("unique_paths_visited" :> Get(metadata, "unique_paths", 1))
        @@ ("failed_auth_attempts" :> Get(metadata, "failed_auth", 0))
        @@ ("method_switches" :> Get(metadata, "method_switches", 0))
        @@ ("user_agent_changes" :> Get(metadata, "ua_changes", 0))
        @@ ("time_since_last_request" :> Get(metadata, "time_since_last", 0))
        @@ ("avg_request_size" :> Get(metadata, "avg_req_size", Len(request.body)))
        @@ ("error_responses" :> Get(metadata, "error_count", 0))
        @@ ("redirect_count" :> Get(metadata, "redirect_count", 0))
        @@ ("session_duration" :> Get(metadata, "session_duration", 0))
        @@ ("path_depth_variance" :> Get(metadata, "path_depth_var", 0))
        @@ ("suspicious_path_ratio" :> Get(metadata, "suspicious_path_ratio", 0))
        @@ ("repeated_param_names" :> Get(metadata, "repeated_params", 0))
        @@ ("http_version_anomaly" :> Get(metadata, "http_version_anomaly", 0))
        @@ ("referer_anomaly" :> Flag(Get(headers, "Referer", "") = ""))
        @@ ("accept_header_missing" :> Flag(Get(headers, "Accept", "") = ""))
        @@ ("cookie_count" :> Get(headers, "Cookie", ""))
        @@ ("unusual_port" :> Get(metadata, "unusual_port", 0))
        @@ ("protocol_violation" :> Get(metadata, "protocol_violation", 0))

\* _extract_header_features
HeaderFeatures(request) ==
    LET headers == request.headers
        user_agent == Get(headers, "User-Agent", "")
        content_type == Get(headers, "Content-Type", "")
    IN  ("user_agent_length" :> user_agent)
        @@ ("user_agent_entropy" :> user_agent)
        @@ ("has_user_agent" :> Flag(user_agent # ""))
        @@ ("user_agent_is_curl" :> user_agent)
        @@ ("user_agent_is_python" :> user_agent)
        @@ ("user_agent_is_scanner" :> user_agent)
        @@ ("has_x_forwarded_for" :> Flag("X-Forwarded-For" \in DOMAIN headers))
        @@ ("has_authorization" :> Flag("Authorization" \in DOMAIN headers))
        @@ ("has_cookie" :> Flag("Cookie" \in DOMAIN headers))
        @@ ("content_type_json" :> content_type)
        @@ ("content_type_xml" :> content_type)
        @@ ("suspicious_content_type" :> content_type)

\* dict.update: the keys of the update replace those already present
Update(features, group) == group @@ features

\* FeatureExtractor.extract
Extract(request) ==
    LET f0 == EmptyDict
        f1 == Update(f0, BasicFeatures(request))
        f2 == Update(f1, ContentFeatures(request))
        f3 == Update(f2, PatternFeatures(request))
        f4 == Update(f3, EntropyFeatures(request))
        f5 == Update(f4, BehavioralFeatures(request))
        f6 == Update(f5, HeaderFeatures(request))
    IN  f6

\* Requests as inspect_request hands them to extract: every key present
FeatureRequests ==
    {[method |-> m, url |-> u, headers |-> h, body |-> b,
      query_params |-> q, metadata |-> md] :
        m \in {"GET", "POST"},
        u \in {<<"/">>, <<"/", "a", "/", "1">>, <<"/", "a", "'", ";">>},
        h \in {EmptyDict, "User-Agent" :> "curl/8",
               ("Cookie" :> "a=1;b=2") @@ ("Referer" :> "/")},
        b \in {<<>>, <<"{", "a", "}">>},
        q \in {EmptyDict, "id" :> "1"},
        md \in {EmptyDict, "req_count" :> 5}}

\* One call of extract on a request
ExtractFeatures(request) ==
    /\ gk_req' = request
    /\ gk_resp' = [op |-> "extract", features |-> Extract(request)]
    /\ UNCHANGED <<active_rules, session_history, poi_events, inspect_calls,
                   swVars, evVars, snVars, now>>

NextFeatures ==
    \/ \E request \in FeatureRequests : ExtractFeatures(request)
    \/ Tick

SpecFeatures == Init /\ [][NextFeatures]_vars

\* ------------------------------------------------------------------------
\* C31: for the payload {sql_injection, confidence 0.95} with the result
\* {exploit_possible, severity 9.0} and no profile, the proposed rule has
\* action block, locations including args, body and json_values, priority
\* in 50..150, and the confidence the weighted formula gives.
\* ------------------------------------------------------------------------
\* The confidence of the weighted formula for the scenario, in thousandths:
\* 0.4 * 0.9 + 0.3 * 0.95 + 0.2 * 0.5 + 0.1 * 0.8
ScenarioConfidence == 4 * 90 + 3 * 95 + 100 + 80

\* The stored rule is the one proposed for the scenario's request
IsScenarioRule(rule) ==
    /\ rule.attack_type = "sql_injection" /\ rule.severity = 90
    /\ rule.confidence = ScenarioConfidence

ScenarioRuleShape(rule, min_confidence) ==
    /\ rule.action = "block"
    /\ rule.confidence >= min_confidence
    /\ {"args", "body", "json_values"} \subseteq rule.location
    /\ rule.priority \in 50..150

\* The claim as stated: confidence >= 0.85
C31_ScenarioRuleConfidence850 ==
    \A i \in 1..Len(generated_rules) :
       (generated_rules[i].attack_type = "sql_injection"
        /\ generated_rules[i].severity = 90
        /\ generated_rules[i].confidence
             = CalculateConfidence([severity |-> 90], NoProfile, [confidence |-> 95]))
       => ScenarioRuleShape(generated_rules[i], 850)

\* Amended: the formula gives 0.825, which is >= 0.75 (the lower block tier)
C31_ScenarioRuleConfidence825 ==
    \A i \in 1..Len(generated_rules) :
       (generated_rules[i].attack_type = "sql_injection"
        /\ generated_rules[i].severity = 90
        /\ generated_rules[i].confidence
             = CalculateConfidence([severity |-> 90], NoProfile, [confidence |-> 95]))
       => /\ ScenarioRuleShape(generated_rules[i], BlockMinConfidence)
          /\ generated_rules[i].confidence = ScenarioConfidence
          /\ generated_rules[i].priority = 150

C31_Witness ==
    /\ sn_resp.op = "propose_rule" /\ sn_resp.status = 200
    /\ generated_rules # <<>>
    /\ IsScenarioRule(generated_rules[Len(generated_rules)])

\* ------------------------------------------------------------------------
\* C32: feature extraction is deterministic and total: every request yields
\* exactly 102 distinctly named features, and two calls with identical
\* requests yield identical feature vectors.
\* ------------------------------------------------------------------------
FeatureCount == 102

ExtractAnswered == gk_resp.op = "extract"

DecidedStep ==
    /\ InspectStep
    /\ gk_resp'.status = 200 /\ gk_resp'.blocked_by = None
    /\ session_history' # session_history

\* The behavioral score the claim gives for a window
ScoreOfEarlier(before) ==
    IF Len(before) < 3 THEN [num |-> 0, den |-> 1] ELSE BehavioralPredict(before)

C33_BehavioralFromEarlierEntries ==
    [][ DecidedStep =>
          LET s == gk_resp'.session_id
              before == HistoryOf(s)
              after == session_history'[s]
          IN /\ gk_resp'.combined =
                   CalculateCombinedScore(gk_resp'.modsecurity, gk_resp'.ml_anomaly,
                                          ScoreOfEarlier(before))
             /\ after[Len(after)].ml_score = gk_resp'.ml_anomaly
             /\ \A t \in DOMAIN session_history :
                   t # s => session_history'[t] = session_history[t] ]_vars

\* An inspection answered from a window of three earlier entries, whose
\* score differs from what the window with the current entry would give;
\* and the entries before it were scored 0
C33_Witness ==
    /\ gk_resp.op = "inspect" /\ gk_resp.status = 200 /\ gk_resp.blocked_by = None
    /\ Len(HistoryOf(gk_resp.session_id)) = 4
    /\ LET h == HistoryOf(gk_resp.session_id)
           earlier == SubSeq(h, 1, 3)
       IN /\ BehavioralPredict(earlier).num > 0
          /\ gk_resp.combined =
                CalculateCombinedScore(gk_resp.modsecurity, gk_resp.ml_anomaly,
                                       BehavioralPredict(earlier))
          /\ gk_resp.combined #
                CalculateCombinedScore(gk_resp.modsecurity, gk_resp.ml_anomaly,
                                       BehavioralPredict(h))

\* ------------------------------------------------------------------------
\* C34: for every consumed pointer whose package contains both
\* metadata.json and session.har, the analysis handler builds an attacker
\* profile from the HAR entries and stores it for the pointer's session_id
\* before the handler returns.
\* ------------------------------------------------------------------------
C34_ProfileStoredForCompletePackage ==
    [][ ( /\ consumer_offset' = consumer_offset + 1
          /\ evidence'.har_log # NoContent
          /\ evidence'.metadata # NoContent )
        => LET pointer == topic[consumer_offset + 1].value
               key == "profile_" \o pointer.session_id
           IN /\ key \in DOMAIN attacker_profiles'
              /\ attacker_profiles'[key].session_id = pointer.session_id
              /\ attacker_profiles'[key].profile = evidence'.har_log.entries ]_vars

\* ------------------------------------------------------------------------
\* C35: under any interleaving of inspect requests with rule-set mutations
\* (create, delete, toggle), each inspection decides its rule-match stage on
\* one snapshot of the enabled rule set, the set as it was when the
\* inspection started, and each per-session window append-and-truncate is
\* atomic: no entry is lost or duplicated and the cap is never exceeded.
\* ------------------------------------------------------------------------
CountedInspectStep == gk_resp'.op = "inspect" /\ inspect_calls' # inspect_calls

C35_InspectionSeesOneSnapshot ==
    [][ CountedInspectStep =>
          LET s == gk_resp'.session_id
              before == HistoryOf(s)
              after == IF s \in DOMAIN session_history'
                       THEN session_history'[s] ELSE <<>>
              decided == gk_resp'.status = 200 /\ gk_resp'.blocked_by = None
          IN /\ active_rules' = active_rules
             /\ gk_resp'.status = 200
             /\ gk_resp'.blocked_by # None
                  => \E i \in 1..Len(active_rules) :
                        /\ active_rules[i].rule_id = gk_resp'.blocked_by
                        /\ BlocksRequest(active_rules[i], gk_req')
             /\ gk_resp'.blocked_by = None
                  => \A i \in 1..Len(active_rules) :
                        ~BlocksRequest(active_rules[i], gk_req')
             /\ decided
                  => /\ Len(after) = Min(Len(before) + 1, WindowCap)
                     /\ after[Len(after)].ml_score = gk_resp'.ml_anomaly
                     /\ \A k \in 1..(Len(after) - 1) :
                           after[k] = before[Len(before) - (Len(after) - 1) + k]
             /\ ~decided => after = before
             /\ Len(after) <= WindowCap ]_vars

\* An inspection of a request the stored rule matches, decided on a rule
\* set in which the rule is disabled, whose append evicted the oldest entry
\* of a full window
C35_Witness ==
    /\ gk_resp.op = "inspect" /\ gk_resp.status = 200 /\ gk_resp.blocked_by = None
    /\ IsSubstr(<<"a">>, CombinedText(gk_req))
    /\ active_rules # <<>> /\ ~active_rules[1].enabled
    /\ Len(HistoryOf(gk_resp.session_id)) = WindowCap
    /\ CallsOf(gk_resp.session_id).decided > WindowCap

\* ------------------------------------------------------------------------
\* C36: a simulation job's status only moves forward along queued ->
\* running -> (completed or failed): once a job is completed its status
\* never changes again, including when the simulator returned an error
\* verdict or when emitting the completion event fails.
\* ------------------------------------------------------------------------
StatusRank(status) ==
    IF status = "queued" THEN 0 ELSE IF status = "running" THEN 1 ELSE 2

C36_JobStatusOnlyForward ==
    [][ \A j \in DOMAIN simulation_results :
          /\ j \in DOMAIN simulation_results'
          /\ StatusRank(simulation_results'[j].status)
               >= StatusRank(simulation_results[j].status)
          /\ simulation_results[j].status = "completed"
               => simulation_results'[j].status = "completed" ]_vars

\* ------------------------------------------------------------------------
\* C37: every accepted simulate request receives a job_id distinct from
\* those of all earlier jobs (including requests accepted within the same
\* second), so no request overwrites another job's record and each job's
\* result is written by exactly one background task.
\* ------------------------------------------------------------------------
SimulateAccepted == Len(sn_tasks') = Len(sn_tasks) + 1

C37_JobIdsDistinct ==
    [][ SimulateAccepted =>
          LET job_id == sn_tasks'[Len(sn_tasks')].job_id
          IN /\ job_id \notin DOMAIN simulation_results
             /\ \A j \in DOMAIN simulation_results :
                   simulation_results'[j] = simulation_results[j]
             /\ \A i \in 1..Len(sn_tasks) : sn_tasks[i].job_id # job_id ]_vars

\* ------------------------------------------------------------------------
\* C38: a rule generated without an attacker profile has confidence at most
\* 0.88 for every severity in [0,10] and payload confidence in [0,1], so on
\* the automatic path (force = false) it is never decided auto_applied and
\* never pushed to the inspection engine.
\* ------------------------------------------------------------------------
NoProfileMaxConfidence == 880

\* The background task of the first queued job ran and generated a rule
\* for a session that has no stored profile
AutoRuleWithoutProfile ==
    /\ sim_runs' = sim_runs + 1
    /\ Len(generated_rules') = Len(generated_rules) + 1
    /\ Head(sn_tasks).session_id \notin DOMAIN attacker_profiles

C38_NoProfileNeverAutoApplied ==
    /\ [](\A severity \in 0..100, confidence \in 0..100 :
            CalculateConfidence([severity |-> severity], NoProfile,
                                [confidence |-> confidence])
              <= NoProfileMaxConfidence)
    /\ [][ AutoRuleWithoutProfile =>
             /\ generated_rules'[Len(generated_rules')].confidence
                   <= NoProfileMaxConfidence
             /\ sn_resp'.decision \in {"pending_review", "logged_only"}
             /\ pushes' = pushes
             /\ \A i \in (Len(sn_events) + 1)..Len(sn_events') :
                   sn_events'[i].action # "auto_applied" ]_vars

\* The most confident rule the automatic path can make without a profile:
\* severity 10, payload confidence 1, held for review and not pushed
C38_Witness ==
    /\ sn_resp.op = "auto_generate_rule"
    /\ sn_resp.decision = "pending_review"
    /\ sn_resp.rule_id \in 1..Len(generated_rules)
    /\ generated_rules[sn_resp.rule_id].confidence = NoProfileMaxConfidence
    /\ generated_rules[sn_resp.rule_id].severity = 100
    /\ pushes = <<>>

\* ------------------------------------------------------------------------
\* C39: rule-apply is idempotent: applying the same generated rule a second
\* time (after it was already pushed) also reports auto_applied, and the
\* inspection engine holds that rule exactly once.
\* ------------------------------------------------------------------------
\* rule-apply decided auto_applied and pushed a rule the engine already
\* holds from an earlier apply
SecondApply ==
    /\ Len(pushes') = Len(pushes) + 1
    /\ EngineHolds(pushes'[Len(pushes')].rule_id)

C39_ApplyIdempotent ==
    [][ SecondApply =>
          LET rule_id == pushes'[Len(pushes')].rule_id
          IN /\ sn_resp'.op = "apply_rule"
             /\ sn_resp'.status = 200
             /\ sn_resp'.decision = "auto_applied"
             /\ Cardinality({i \in 1..Len(pushes') :
                               /\ pushes'[i].rule_id = rule_id
                               /\ pushes'[i].outcome = "created"}) = 1 ]_vars

\* ------------------------------------------------------------------------
\* C40: a pin created for (session_id, client_ip) affects only the
\* fingerprint of that exact pair: a route call carrying the same session id
\* from a different client IP is not matched by the pin and returns
\* production, and a second pin for the same pair replaces the first so
\* that at most one pin per fingerprint exists.
\* ------------------------------------------------------------------------
RouteStep == sw_resp'.op = "route" /\ now' = now

PinStep == sw_resp'.op = "pin" /\ sw_events' = sw_events + 1

\* The pin was made for its session id and a client IP other than ip
PinnedFromOtherIp(pin, ip) ==
    pin.fingerprint # GenerateFingerprint(pin.session_id, ip)

OnePinPerFingerprint ==
    \A i, j \in 1..Len(pinned_sessions) :
       i # j => pinned_sessions[i].fingerprint # pinned_sessions[j].fingerprint

SecondPinReplaces ==
    PinStep =>
       LET fp == sw_resp'.fingerprint
       IN /\ \E k \in 1..Len(pinned_sessions') :
                /\ pinned_sessions'[k].fingerprint = fp
                /\ pinned_sessions'[k].pinned_until = sw_resp'.pinned_until
                /\ pinned_sessions'[k].pinned_at = now
          /\ HasPin(pinned_sessions, fp)
                => Len(pinned_sessions') = Len(pinned_sessions)

\* A route call carrying session id sid, one of sids, from a client IP other
\* than that of a pin of sid is not matched by the pin, and is answered
\* production when every pin held is such a pin
OtherIpNotMatched(sids) ==
    RouteStep =>
       \A sid \in sids :
          \A i \in 1..Len(pinned_sessions) :
             ( /\ CarriesSession(sw_req', sid)
               /\ pinned_sessions[i].session_id = sid
               /\ PinnedFromOtherIp(pinned_sessions[i], sw_req'.client_ip) )
             => /\ ExtractFingerprint(sw_req') # pinned_sessions[i].fingerprint
                /\ ( \A j \in 1..Len(pinned_sessions) :
                        /\ pinned_sessions[j].session_id = sid
                        /\ PinnedFromOtherIp(pinned_sessions[j], sw_req'.client_ip) )
                   => sw_resp'.target = "production"

\* As stated: for every session id
C40_PinAffectsOnlyItsPair ==
    /\ []OnePinPerFingerprint
    /\ [][SecondPinReplaces]_vars
    /\ [][OtherIpNotMatched(SwSessionIds)]_vars

\* Amended: for every session id but the empty one
C40_PinOfNonEmptySessionAffectsOnlyItsPair ==
    /\ []OnePinPerFingerprint
    /\ [][SecondPinReplaces]_vars
    /\ [][OtherIpNotMatched(SwSessionIds \ {""})]_vars

\* A route call carrying the pinned session id from the other client IP was
\* answered production while the pin, made twice, is held once and is live
C40_Witness ==
    /\ sw_resp.op = "route" /\ sw_resp.target = "production"
    /\ sw_req.session_id = "s1" /\ sw_req.client_ip = "ip2"
    /\ sw_events = 2
    /\ Len(pinned_sessions) = 1
    /\ pinned_sessions[1].fingerprint = GenerateFingerprint("s1", "ip1")
    /\ pinned_sessions[1].pinned_at > 0
    /\ ~PinExpired(pinned_sessions[1], now)

====
